---------------------------- MODULE Spec2Model ----------------------------
(***************************************************************************)
(* A model of the AMI QC reconciliation engine QualityAlliant              *)
(* (src/tasks/ami/ami_qc/ami_qc_alliant.py).                               *)
(*                                                                         *)
(* Python strings are sequences of one-character strings, None is the      *)
(* value None below, a dataframe is a sequence of rows (records).          *)
(***************************************************************************)
EXTENDS Integers, Sequences, FiniteSets, TLC

VARIABLES
    pc,            \* position of the operation being modelled
    full_name,     \* clean_file_name: the argument
    fname,         \* clean_file_name: the value returned
    fname_again,   \* clean_file_name applied to its own result
    step_number,   \* qc_individual_step / qc_individual_metric: the step
    metric_number, \* the metric being evaluated (the loop variable key)
    qc_values,     \* qc_values['metrics']: metric -> left_data, right_data
    df_error,      \* the joined-row set of the step
    metric_output, \* metric -> the MetricResult returned for it
    save_calls,    \* the calls of save_error_rows, in order
    error_sink,    \* error-row storage: location -> the rows written there
    fault,         \* the exception that ended the operation, or NoFault
    step_list,     \* union_qc_output: the list of step outputs passed
    df_output,     \* the dataframe union_qc_output returned
    has_manifest,  \* configuration: the tenant sends a manifest
    tables,        \* the extractor outputs the current step works on
    COMPLETED_QC_STEP_LIST,  \* the process-wide list of step outputs
    views,         \* the temp views registered: name -> what backs it
    summary_sink,  \* the AMI summary location: the summary saved there (in Spec, its run)
    qc_sink,       \* the QC report location: what was written there
    phase_log,     \* the phases of the current run, in the order started
    runs           \* how many times run was called in this process

cleanVars == <<full_name, fname, fname_again>>

metricVars ==
    <<step_number, metric_number, qc_values, df_error, metric_output,
      save_calls, error_sink, fault>>

unionVars == <<step_list, df_output>>

runVars ==
    <<has_manifest, tables, COMPLETED_QC_STEP_LIST, views, summary_sink,
      qc_sink, phase_log, runs>>

vars == <<pc, cleanVars, metricVars, unionVars, runVars>>

(***************************************************************************)
(* Bounds of the model.                                                    *)
(***************************************************************************)
MaxNameLen == 4

MaxRows == 2

MaxScalar == 1

MaxStepList == 3

\* The calls of run in one process.
MaxRuns == 2

\* The calls of save_error_rows in one behaviour of SpecSaveErrorRows.
MaxSaves == 2

\* The raw reads of the decrypted table in SpecSummary.
MaxReads == 2

\* The length of the raw file name of an audit entry in SpecFileKeys.
MaxAuditNameLen == 2

(***************************************************************************)
(* Python values.                                                          *)
(***************************************************************************)
\* Python's None: a value that is no string over the alphabet.
None == <<"None">>

\* The characters file names are built from: the path separator, the dot and
\* one ordinary character.
NameChars == {"/", ".", "a"}

Strings(chars, n) == UNION {[1..k -> chars] : k \in 0..n}

\* str.find(c): the 0-based index of the first c in s, or -1.
RECURSIVE FindFrom(_, _, _)
FindFrom(s, c, i) ==
    IF i > Len(s) THEN -1
    ELSE IF s[i] = c THEN i - 1
    ELSE FindFrom(s, c, i + 1)

Find(s, c) == FindFrom(s, c, 1)

\* str.split('/')[-1]: what follows the last '/' (all of s when it has none).
RECURSIVE LastPart(_)
LastPart(s) ==
    IF s = <<>> THEN <<>>
    ELSE IF s[Len(s)] = "/" THEN <<>>
    ELSE Append(LastPart(SubSeq(s, 1, Len(s) - 1)), s[Len(s)])

UNKNOWN == <<"U", "N", "K", "N", "O", "W", "N">>

\* QualityAlliant.clean_file_name(full_name, default='UNKNOWN')
clean_file_name(name) ==
    IF name = None \/ Len(name) < 1 THEN UNKNOWN
    ELSE LET base == LastPart(name)
             dotidx == Find(base, ".")
         IN  IF dotidx > 0 THEN SubSeq(base, 1, dotidx) ELSE base

(***************************************************************************)
(* Nullable integers.  A count, a sum or a delta is an integer; None (a    *)
(* missing aggregate, a SQL null) is the value NoneInt, which no count or  *)
(* sum of the model takes.                                                 *)
(***************************************************************************)
NoneInt == 0 - 1

IsNone(x) == x = NoneInt

\* No exception raised.
NoFault == "none"

(***************************************************************************)
(* The metric registry QC_META: step -> name, metrics; the metrics of a    *)
(* step are keyed 1, 2, ... in ascending order.                            *)
(***************************************************************************)
QC_META == <<
    [name |-> "Decrypt",
     metrics |-> <<
        [name |-> "file count",
         left_data |-> "manifest file count",
         right_data |-> "audit file count",
         error_message |-> "audit file count does not match manifest",
         error_df_filter_string |-> "file_mismatch = 1"],
        [name |-> "line count",
         left_data |-> "manifest line count",
         right_data |-> "audit line count",
         error_message |-> "audit line count does not match manifest",
         error_df_filter_string |-> "linecount_mismatch = 1"],
        [name |-> "checksums",
         left_data |-> "manifest checksums",
         right_data |-> "audit checksums",
         error_message |-> "checksum of audit checksum list does not match manifest",
         error_df_filter_string |-> "checksum_mismatch = 1"] >>],
    [name |-> "Channel Ingest",
     metrics |-> <<
        [name |-> "all raw ami channels processed",
         left_data |-> "raw ami channel count",
         right_data |-> "channel ingest channel count",
         error_message |-> "raw ami channels missing from channel ingest output",
         error_df_filter_string |-> "no_output = 1"],
        [name |-> "no distinct raw ami channels mapped to multiple channel uuids",
         left_data |-> "multiple mapped channels expected",
         right_data |-> "multiple mapped channels count",
         error_message |-> "distinct raw ami channels mapped to multiple channel uuids",
         error_df_filter_string |-> "external_channel_multiple_channel_uuid = 1"],
        [name |-> "channel uuids in success output are mapped correctly in zeus",
         left_data |-> "channel ingest cuccess count",
         right_data |-> "correctly mapped channels from zeus",
         error_message |-> "channel uuids in success output incorrectly mapped in zeus",
         error_df_filter_string |-> "success = 1 AND channel_uuid_match = 0"] >>],
    [name |-> "Extract Common AMI",
     metrics |-> <<
        [name |-> "all raw ami reads processed",
         left_data |-> "raw ami read count",
         right_data |-> "extract common ami total read count",
         error_message |-> "raw ami read count != extract common ami total read count",
         error_df_filter_string |-> "raw_read_cnt != eca_total_cnt"] >>],
    [name |-> "Load Common AMI",
     metrics |-> <<
        [name |-> "all ingestable reads loaded",
         left_data |-> "extract common ami success read count",
         right_data |-> "load common ami metadata count",
         error_message |-> "extract common ami success read count != load common ami metadata count",
         error_df_filter_string |-> "eca_success_cnt != lca_success_cnt"] >> ] >>

StepNumbers == DOMAIN QC_META

MetricKeys(step) == DOMAIN QC_META[step].metrics

(***************************************************************************)
(* Dataframes: the column names and the rows, each row a record over the   *)
(* columns.                                                                *)
(***************************************************************************)
DataFrame(columns, rows) == [columns |-> columns, rows |-> rows]

HasColumn(df, c) == \E i \in DOMAIN df.columns : df.columns[i] = c

\* The columns an error_df_filter_string reads.
FilterColumns(filter_string) ==
    CASE filter_string = "file_mismatch = 1" -> {"file_mismatch"}
      [] filter_string = "linecount_mismatch = 1" -> {"linecount_mismatch"}
      [] filter_string = "checksum_mismatch = 1" -> {"checksum_mismatch"}
      [] filter_string = "no_output = 1" -> {"no_output"}
      [] filter_string = "external_channel_multiple_channel_uuid = 1" ->
            {"external_channel_multiple_channel_uuid"}
      [] filter_string = "success = 1 AND channel_uuid_match = 0" ->
            {"success", "channel_uuid_match"}
      [] filter_string = "raw_read_cnt != eca_total_cnt" ->
            {"raw_read_cnt", "eca_total_cnt"}
      [] filter_string = "eca_success_cnt != lca_success_cnt" ->
            {"eca_success_cnt", "lca_success_cnt"}

\* SQL a != b: true only when both are non-null and differ.
SqlNotEqual(a, b) == ~IsNone(a) /\ ~IsNone(b) /\ a # b

\* The SQL predicate of an error_df_filter_string on one row.
RowMatches(filter_string, row) ==
    CASE filter_string = "file_mismatch = 1" -> row.file_mismatch = 1
      [] filter_string = "linecount_mismatch = 1" -> row.linecount_mismatch = 1
      [] filter_string = "checksum_mismatch = 1" -> row.checksum_mismatch = 1
      [] filter_string = "no_output = 1" -> row.no_output = 1
      [] filter_string = "external_channel_multiple_channel_uuid = 1" ->
            row.external_channel_multiple_channel_uuid = 1
      [] filter_string = "success = 1 AND channel_uuid_match = 0" ->
            row.success = 1 /\ row.channel_uuid_match = 0
      [] filter_string = "raw_read_cnt != eca_total_cnt" ->
            SqlNotEqual(row.raw_read_cnt, row.eca_total_cnt)
      [] filter_string = "eca_success_cnt != lca_success_cnt" ->
            SqlNotEqual(row.eca_success_cnt, row.lca_success_cnt)

\* DataFrame.filter(filter_string) raises when a column it reads is missing.
FilterRaises(filter_string, df) ==
    \E c \in FilterColumns(filter_string) : ~HasColumn(df, c)

\* withColumn('error_message', lit(message)) on one row.
WithErrorMessage(row, message) ==
    [c \in DOMAIN row \cup {"error_message"} |->
        IF c = "error_message" THEN message ELSE row[c]]

\* update_error_dataframe without the filter: every row is kept.
update_error_dataframe_unfiltered(step, metric, df) ==
    LET meta == QC_META[step].metrics[metric]
    IN  DataFrame(
            Append(df.columns, "error_message"),
            [i \in DOMAIN df.rows |-> WithErrorMessage(df.rows[i], meta.error_message)])

\* QualityAlliant.update_error_dataframe
update_error_dataframe(step, metric, df) ==
    LET meta == QC_META[step].metrics[metric]
        Keep(row) == RowMatches(meta.error_df_filter_string, row)
        kept == SelectSeq(df.rows, Keep)
    IN  DataFrame(
            Append(df.columns, "error_message"),
            [i \in DOMAIN kept |-> WithErrorMessage(kept[i], meta.error_message)])

\* The stage directory of save_error_rows.
ErrorStages ==
    <<"decrypt", "channel_ingest", "extract_common_ami", "load_common_ami",
      "raw_to_mdis_hour", "raw_to_mdis_day">>

\* save_error_rows without the metric_number=<n> part of the location.
save_to_without_metric(step, metric) ==
    IF step \in DOMAIN ErrorStages THEN <<ErrorStages[step], 0>> ELSE None

\* save_error_rows: the location s3_path_save_errors_base/<stage>/
\* metric_number=<n>/errors.parquet, or None for an unknown step.
save_to(step, metric) ==
    IF step \in DOMAIN ErrorStages THEN <<ErrorStages[step], metric>> ELSE None

\* The comparison of qc_individual_metric, inverted.
qc_pass_inverted(left_data, right_data) == left_data # right_data

\* qc_individual_metric: the metric passes iff left_data == right_data.
qc_pass(left_data, right_data) == left_data = right_data

\* The OrderedDict of qc_individual_metric with the error keys set whatever
\* the error message.
MetricResult_always_error_keys(step, metric, left_data, right_data, qc_status, error_message, path) ==
    LET meta == QC_META[step].metrics[metric]
        base == [metric_name |-> meta.name,
                 left_data_name |-> meta.left_data,
                 left_data_value |-> left_data,
                 right_data_name |-> meta.right_data,
                 right_data_value |-> right_data,
                 left_right_delta |-> left_data - right_data,
                 qc_timestamp |-> "utcnow",
                 qc_status |-> qc_status]
    IN  [k \in DOMAIN base \cup {"qc_error_message", "qc_error_path"} |->
            IF k = "qc_error_message" THEN error_message
            ELSE IF k = "qc_error_path" THEN path
            ELSE base[k]]

\* The OrderedDict qc_individual_metric returns; qc_timestamp is the time of
\* the call.
MetricResult(step, metric, left_data, right_data, qc_status, error_message, path) ==
    LET meta == QC_META[step].metrics[metric]
        base == [metric_name |-> meta.name,
                 left_data_name |-> meta.left_data,
                 left_data_value |-> left_data,
                 right_data_name |-> meta.right_data,
                 right_data_value |-> right_data,
                 left_right_delta |-> left_data - right_data,
                 qc_timestamp |-> "utcnow",
                 qc_status |-> qc_status]
    IN  IF error_message # ""
        THEN [k \in DOMAIN base \cup {"qc_error_message", "qc_error_path"} |->
                IF k = "qc_error_message" THEN error_message
                ELSE IF k = "qc_error_path" THEN path
                ELSE base[k]]
        ELSE base

\* One call of save_error_rows as the model records it.
SaveCall(step, metric, df, path, ok) ==
    [step_number |-> step, metric_number |-> metric, df_errors |-> df,
     save_to |-> path, ok |-> ok]

\* QualityAlliant.save_error_rows(df_errors, step_number, metric_number).
\* write_ok: whether the write succeeds.  The result: the exception raised
\* (or NoFault), the location returned and the call as recorded.
save_error_rows(df_errors, step, metric, write_ok) ==
    LET path == save_to(step, metric)
    IN  IF path # None /\ ~write_ok
        THEN [fault |-> "WriteError", save_to |-> path,
              calls |-> <<SaveCall(step, metric, df_errors, path, FALSE)>>]
        ELSE [fault |-> NoFault, save_to |-> path,
              calls |-> <<SaveCall(step, metric, df_errors, path, TRUE)>>]

\* qc_individual_metric catching the failure of save_error_rows: the metric
\* result is returned as if the rows were saved.
qc_individual_metric_catching(step, metric, left_data, right_data, df, write_ok) ==
    LET meta == QC_META[step].metrics[metric]
    IN  IF IsNone(left_data) \/ IsNone(right_data)
        THEN [fault |-> "TypeError", output |-> <<>>, calls |-> <<>>]
        ELSE IF qc_pass(left_data, right_data)
        THEN [fault |-> NoFault,
              output |-> (metric :> MetricResult(step, metric, left_data, right_data,
                                                  1, "", None)),
              calls |-> <<>>]
        ELSE IF FilterRaises(meta.error_df_filter_string, df)
        THEN [fault |-> "AnalysisException", output |-> <<>>, calls |-> <<>>]
        ELSE LET errors == update_error_dataframe(step, metric, df)
                 path == save_to(step, metric)
             IN  [fault |-> NoFault,
                  output |-> (metric :> MetricResult(step, metric, left_data,
                                   right_data, 0, meta.error_message, path)),
                  calls |-> <<SaveCall(step, metric, errors, path,
                                       path = None \/ write_ok)>>]

\* QualityAlliant.qc_individual_metric together with the save_error_rows it
\* calls.  write_ok: whether the write of the error rows succeeds.  The
\* result: the exception raised (or NoFault), the dict entry metric ->
\* MetricResult returned, and the calls of save_error_rows made.
qc_individual_metric(step, metric, left_data, right_data, df, write_ok) ==
    LET meta == QC_META[step].metrics[metric]
    IN  IF IsNone(left_data) \/ IsNone(right_data)
        THEN \* l_r_delta = left_data - right_data raises on None
             [fault |-> "TypeError", output |-> <<>>, calls |-> <<>>]
        ELSE IF qc_pass(left_data, right_data)
        THEN [fault |-> NoFault,
              output |-> (metric :> MetricResult(step, metric, left_data, right_data,
                                                  1, "", None)),
              calls |-> <<>>]
        ELSE IF FilterRaises(meta.error_df_filter_string, df)
        THEN [fault |-> "AnalysisException", output |-> <<>>, calls |-> <<>>]
        ELSE LET errors == update_error_dataframe(step, metric, df)
                 saved == save_error_rows(errors, step, metric, write_ok)
             IN  IF saved.fault # NoFault
                 THEN [fault |-> saved.fault, output |-> <<>>, calls |-> saved.calls]
                 ELSE [fault |-> NoFault,
                       output |-> (metric :> MetricResult(step, metric, left_data,
                                        right_data, 0, meta.error_message,
                                        saved.save_to)),
                       calls |-> saved.calls]

\* The error-row storage after the calls: a successful write replaces what
\* the location held (mode='overwrite').
Written(sink, calls) ==
    IF calls # <<>> /\ calls[1].ok /\ calls[1].save_to # None
    THEN (calls[1].save_to :> calls[1].df_errors.rows) @@ sink
    ELSE sink

MetricIdle ==
    /\ step_number = 0
    /\ metric_number = 0
    /\ qc_values = <<>>
    /\ df_error = DataFrame(<<>>, <<>>)
    /\ metric_output = <<>>
    /\ save_calls = <<>>
    /\ error_sink = <<>>
    /\ fault = NoFault

(***************************************************************************)
(* The QC output: one row per step, of schema SCHEMA.                      *)
(***************************************************************************)
SCHEMA == <<"id", "name", "execution_date", "metrics", "qc_reference", "misc">>

Digits == <<"0", "1", "2", "3", "4", "5", "6", "7", "8", "9">>

\* str(n) for a natural number n: createDataFrame stores the integer id in
\* the StringType column id.
RECURSIVE ToStr(_)
ToStr(n) ==
    IF n < 10 THEN <<Digits[n + 1]>>
    ELSE Append(ToStr(n \div 10), Digits[(n % 10) + 1])

\* The characters of the model's strings, in code-point order.
Chars ==
    <<".", "/", "0", "1", "2", "3", "4", "5", "6", "7", "8", "9",
      "K", "N", "O", "U", "W", "a", "b", "c", "d", "e", "f">>

CharCode(c) == CHOOSE i \in DOMAIN Chars : Chars[i] = c

\* a < b for strings, as Python and orderBy compare them.
RECURSIVE StrLess(_, _)
StrLess(a, b) ==
    IF b = <<>> THEN FALSE
    ELSE IF a = <<>> THEN TRUE
    ELSE IF a[1] # b[1] THEN CharCode(a[1]) < CharCode(b[1])
    ELSE StrLess(Tail(a), Tail(b))

\* The keys of qc_values['reference'] of each step.
ReferenceKeys(step) ==
    CASE step = 1 -> {"ami_summary", "audit", "decrypted", "encrypted", "manifest"}
      [] step = 2 -> {"ami_summary", "channel_ingest_error", "channel_ingest_success",
                      "zeus_channel_mapping"}
      [] step = 3 -> {"ami_summary", "channel_ingest_success",
                      "extract_common_ami_error", "extract_common_ami_success"}
      [] step = 4 -> {"common", "extract_common_ami_success", "load_common_ami_success"}

\* The dataframe qc_individual_step returns: one row of schema SCHEMA.
\* metrics is the dict metric -> MetricResult (json.dumps of it).
QcStepOutput(step, metrics) ==
    DataFrame(SCHEMA,
        <<[id |-> ToStr(step),
           name |-> QC_META[step].name,
           execution_date |-> "execution_date_y_m_d",
           metrics |-> metrics,
           qc_reference |-> ReferenceKeys(step),
           misc |-> "misc"]>>)

\* reduce(DataFrame.union, step_list): the rows of all the dataframes.
RECURSIVE UnionAll(_)
UnionAll(frames) ==
    IF frames = <<>> THEN <<>>
    ELSE frames[1].rows \o UnionAll(Tail(frames))

RemoveAt(s, i) == SubSeq(s, 1, i - 1) \o SubSeq(s, i + 1, Len(s))

\* orderBy(col('id')): every arrangement of the rows in ascending order of
\* id; rows of equal id come in an order the engine chooses.
RECURSIVE OrderById(_)
OrderById(rows) ==
    IF rows = <<>> THEN {<<>>}
    ELSE UNION {
            {<<rows[i]>> \o rest : rest \in OrderById(RemoveAt(rows, i))} :
            i \in {k \in DOMAIN rows :
                    \A j \in DOMAIN rows : ~StrLess(rows[j].id, rows[k].id)}}

\* union_qc_output without the orderBy.
union_qc_output_unordered(frames) ==
    IF Len(frames) = 0
    THEN {DataFrame(SCHEMA, <<>>)}
    ELSE {DataFrame(frames[1].columns, UnionAll(frames))}

\* QualityAlliant.union_qc_output: the dataframes it may return.
union_qc_output(frames) ==
    IF Len(frames) = 0
    THEN {DataFrame(SCHEMA, <<>>)}
    ELSE {DataFrame(frames[1].columns, rows) : rows \in OrderById(UnionAll(frames))}

UnionIdle ==
    /\ step_list = <<>>
    /\ df_output = DataFrame(<<>>, <<>>)

(***************************************************************************)
(* Tables.  A table the catalog supplies, and a dataframe an extractor     *)
(* returns, is a set of rows: the engine keeps no row order, so what       *)
(* collect() returns is any enumeration of the rows.                       *)
(***************************************************************************)
RECURSIVE SetToSeq(_)
SetToSeq(S) ==
    IF S = {} THEN <<>>
    ELSE LET x == CHOOSE y \in S : TRUE
         IN  <<x>> \o SetToSeq(S \ {x})

\* The orders in which collect() may return the rows of S.
Enumerations(S) ==
    {e \in [1..Cardinality(S) -> S] : \A i, j \in 1..Cardinality(S) : i # j => e[i] # e[j]}

\* df.select(column).rdd.flatMap(lambda x: x).collect()
CollectColumn(S, column) ==
    {[i \in DOMAIN e |-> e[i][column]] : e \in Enumerations(S)}

SubsetsUpTo(S, n) == {T \in SUBSET S : Cardinality(T) <= n}

\* df.agg({column: "sum"}).collect()[0][0]: None for no rows.
RECURSIVE SumSeq(_, _)
SumSeq(rows, column) ==
    IF rows = <<>> THEN 0
    ELSE rows[1][column] + SumSeq(Tail(rows), column)

SumColumn(S, column) ==
    IF S = {} THEN NoneInt ELSE SumSeq(SetToSeq(S), column)

\* list.sort() on strings.
RECURSIVE InsertSorted(_, _)
InsertSorted(x, sorted) ==
    IF sorted = <<>> THEN <<x>>
    ELSE IF StrLess(x, sorted[1]) THEN <<x>> \o sorted
    ELSE <<sorted[1]>> \o InsertSorted(x, Tail(sorted))

RECURSIVE SortStrings(_)
SortStrings(list) ==
    IF list = <<>> THEN <<>>
    ELSE InsertSorted(list[Len(list)], SortStrings(SubSeq(list, 1, Len(list) - 1)))

\* ''.join(list)
RECURSIVE JoinStrings(_)
JoinStrings(list) ==
    IF list = <<>> THEN <<>>
    ELSE list[1] \o JoinStrings(Tail(list))

\* int(hashlib.md5(s).hexdigest(), 16).  MD5 is taken to be free of
\* collisions on the strings of the model: the digest of s is the numeral
\* that s spells, which differs for different strings.
RECURSIVE md5_int(_)
md5_int(s) ==
    IF s = <<>> THEN 0
    ELSE md5_int(SubSeq(s, 1, Len(s) - 1)) * (Len(Chars) + 1) + CharCode(s[Len(s)])

\* The checksum scalar without the sort of the list.
checksum_scalar_unsorted(checksum_list) == md5_int(JoinStrings(checksum_list))

\* decrypt: the checksum list is sorted, joined and digested.
checksum_scalar(checksum_list) == md5_int(JoinStrings(SortStrings(checksum_list)))

\* SQL a != b on strings: true only when both are non-null and differ.
SqlNotEqualStr(a, b) == a # None /\ b # None /\ a # b

\* fillna(0) on an integer column.
FillNa0(x) == IF IsNone(x) THEN 0 ELSE x

Flag(condition) == IF condition THEN 1 ELSE 0

\* orderBy(column) on a string column, ascending with nulls first.  Rows
\* with equal keys stay in the order the join produced them; nothing reads
\* the order of the error rows.
NullsFirstLess(a, b) ==
    IF b = None THEN FALSE
    ELSE IF a = None THEN TRUE
    ELSE StrLess(a, b)

RECURSIVE InsertByColumn(_, _, _)
InsertByColumn(row, sorted, column) ==
    IF sorted = <<>> THEN <<row>>
    ELSE IF NullsFirstLess(row[column], sorted[1][column]) THEN <<row>> \o sorted
    ELSE <<sorted[1]>> \o InsertByColumn(row, Tail(sorted), column)

RECURSIVE OrderBy(_, _)
OrderBy(rows, column) ==
    IF rows = <<>> THEN <<>>
    ELSE InsertByColumn(rows[Len(rows)],
                        OrderBy(SubSeq(rows, 1, Len(rows) - 1), column), column)

\* join_decrypt_manifest without the comparison of the line counts.
JoinManifestRow_no_linecount_flag(m, a) ==
    [manifest_filename |-> m.manifest_filename,
     manifest_checksum |-> m.manifest_checksum,
     manifest_linecount |-> FillNa0(m.manifest_linecount),
     audit_filename |-> a.audit_filename,
     audit_checksum |-> a.audit_checksum,
     audit_linecount |-> FillNa0(a.audit_linecount),
     file_mismatch |-> Flag(a.audit_filename = None),
     linecount_mismatch |-> 0,
     checksum_mismatch |-> Flag(SqlNotEqualStr(m.manifest_checksum, a.audit_checksum))]

\* QualityAlliant.join_decrypt_manifest: df_m left outer join df_a on the
\* file name.  fillna(0) fills the integer columns only: a missing
\* checksum stays null.
JoinManifestRow(m, a) ==
    LET audit_linecount == FillNa0(a.audit_linecount)
        manifest_linecount == FillNa0(m.manifest_linecount)
    IN  [manifest_filename |-> m.manifest_filename,
         manifest_checksum |-> m.manifest_checksum,
         manifest_linecount |-> manifest_linecount,
         audit_filename |-> a.audit_filename,
         audit_checksum |-> a.audit_checksum,
         audit_linecount |-> audit_linecount,
         file_mismatch |-> Flag(a.audit_filename = None),
         linecount_mismatch |-> Flag(SqlNotEqual(manifest_linecount, audit_linecount)),
         checksum_mismatch |-> Flag(SqlNotEqualStr(m.manifest_checksum, a.audit_checksum))]

NullAudit ==
    [audit_filename |-> None, audit_checksum |-> None, audit_linecount |-> NoneInt]

\* The rows of the right side found to join a left row, or the null row.
Matches(found, nullRow) ==
    IF found = {} THEN {nullRow} ELSE found

JoinedManifestColumns ==
    <<"manifest_filename", "manifest_checksum", "manifest_linecount",
      "audit_filename", "audit_checksum", "audit_linecount",
      "file_mismatch", "linecount_mismatch", "checksum_mismatch">>

join_decrypt_manifest(df_m, df_a) ==
    DataFrame(JoinedManifestColumns,
        OrderBy(SetToSeq(UNION {
            {JoinManifestRow(m, a) :
                a \in Matches({r \in df_a : r.audit_filename = m.manifest_filename},
                              NullAudit)} :
            m \in df_m}), "manifest_filename"))

\* QualityAlliant.join_decrypt_no_manifest: df_e left outer join df_d left
\* outer join df_a (its file name and line count) on the file name.
JoinNoManifestRow(e, d, a) ==
    LET audit_linecount == FillNa0(a.audit_linecount)
        decrypted_linecount == FillNa0(d.decrypted_linecount)
    IN  [encrypted_filename |-> e.encrypted_filename,
         decrypted_filename |-> d.decrypted_filename,
         decrypted_linecount |-> decrypted_linecount,
         audit_filename |-> a.audit_filename,
         audit_linecount |-> audit_linecount,
         file_mismatch |-> Flag(d.decrypted_filename = None),
         linecount_mismatch |-> Flag(SqlNotEqual(audit_linecount, decrypted_linecount))]

NullDecrypted == [decrypted_filename |-> None, decrypted_linecount |-> NoneInt]

JoinedNoManifestColumns ==
    <<"encrypted_filename", "decrypted_filename", "decrypted_linecount",
      "audit_filename", "audit_linecount", "file_mismatch", "linecount_mismatch">>

\* One joined row per encrypted file, decrypted row and audit row that
\* match; audit rows that differ in the checksum alone give equal rows.
RECURSIVE Flatten(_)
Flatten(seqs) ==
    IF seqs = <<>> THEN <<>> ELSE seqs[1] \o Flatten(Tail(seqs))

join_decrypt_no_manifest(df_e, df_a, df_d) ==
    LET es == SetToSeq(df_e)
        RowsOf(e) ==
            LET ds == SetToSeq(Matches(
                        {r \in df_d : r.decrypted_filename = e.encrypted_filename},
                        NullDecrypted))
                as == SetToSeq(Matches(
                        {r \in df_a : r.audit_filename = e.encrypted_filename},
                        NullAudit))
            IN  Flatten([i \in DOMAIN ds |->
                    [j \in DOMAIN as |-> JoinNoManifestRow(e, ds[i], as[j])]])
    IN  DataFrame(JoinedNoManifestColumns,
            OrderBy(Flatten([i \in DOMAIN es |-> RowsOf(es[i])]), "encrypted_filename"))

Scalars(left_data, right_data) == [left_data |-> left_data, right_data |-> right_data]

\* QualityAlliant.decrypt comparing the checksums without a manifest too.
decrypt_checksums_without_manifest(manifest, t, manifest_checksum_list, audit_checksum_list) ==
    IF manifest
    THEN [metrics |-> <<
            Scalars(Cardinality(t.df_m), Cardinality(t.df_a)),
            Scalars(SumColumn(t.df_m, "manifest_linecount"),
                    SumColumn(t.df_a, "audit_linecount")),
            Scalars(checksum_scalar(manifest_checksum_list),
                    checksum_scalar(audit_checksum_list)) >>,
          df_error |-> join_decrypt_manifest(t.df_m, t.df_a)]
    ELSE [metrics |-> <<
            Scalars(Cardinality(t.df_e), Cardinality(t.df_d)),
            Scalars(SumColumn(t.df_d, "decrypted_linecount"),
                    SumColumn(t.df_a, "audit_linecount")),
            Scalars(checksum_scalar(manifest_checksum_list),
                    checksum_scalar(audit_checksum_list)) >>,
          df_error |-> join_decrypt_no_manifest(t.df_e, t.df_a, t.df_d)]

\* QualityAlliant.decrypt up to the call of qc_individual_step: the
\* qc_values['metrics'] and the joined rows.  manifest_checksum_list and
\* audit_checksum_list are the checksum columns as collect() returned them.
decrypt(manifest, t, manifest_checksum_list, audit_checksum_list) ==
    IF manifest
    THEN [metrics |-> <<
            Scalars(Cardinality(t.df_m), Cardinality(t.df_a)),
            Scalars(SumColumn(t.df_m, "manifest_linecount"),
                    SumColumn(t.df_a, "audit_linecount")),
            Scalars(checksum_scalar(manifest_checksum_list),
                    checksum_scalar(audit_checksum_list)) >>,
          df_error |-> join_decrypt_manifest(t.df_m, t.df_a)]
    ELSE [metrics |-> <<
            Scalars(Cardinality(t.df_e), Cardinality(t.df_d)),
            Scalars(SumColumn(t.df_d, "decrypted_linecount"),
                    SumColumn(t.df_a, "audit_linecount")),
            Scalars(0, 0) >>,
          df_error |-> join_decrypt_no_manifest(t.df_e, t.df_a, t.df_d)]

(***************************************************************************)
(* The channel ingest step.  df_cs and df_cie are distinct (sets of rows); *)
(* df_cis and df_zcid are plain selects and may repeat a row (sequences).  *)
(***************************************************************************)
ChannelIdentity(r) ==
    <<r.external_location_id, r.external_account_id, r.external_channel_id, r.direction>>

\* A join condition a == b on the four columns: a null never joins.
SameChannel(a, b) ==
    /\ ChannelIdentity(a) = ChannelIdentity(b)
    /\ \A i \in 1..4 : ChannelIdentity(a)[i] # None

NullChannel ==
    [external_location_id |-> None, external_account_id |-> None,
     external_channel_id |-> None, direction |-> None]

NullChannelWithUuid ==
    [external_location_id |-> None, external_account_id |-> None,
     external_channel_id |-> None, direction |-> None, channel_uuid |-> None]

\* The rows of a sequence that join, or the null row: a left outer join.
MatchesSeq(found, nullRow) ==
    IF found = <<>> THEN <<nullRow>> ELSE found

JoinedChannelIngestColumns ==
    <<"external_location_id", "external_account_id", "external_channel_id",
      "direction", "ci_success_channel_uuid", "channel_uuid_from_zeus",
      "success", "error", "no_output", "channel_uuid_match",
      "external_channel_multiple_channel_uuid">>

\* One row of join_channel_ingest with success set for every channel of the
\* success output, whatever the error output holds.
JoinChannelIngestRow_success_despite_error(cs, cis, cie, zcid) ==
    [external_location_id |-> cs.external_location_id,
     external_account_id |-> cs.external_account_id,
     external_channel_id |-> cs.external_channel_id,
     direction |-> cs.direction,
     ci_success_channel_uuid |-> cis.channel_uuid,
     channel_uuid_from_zeus |-> zcid.channel_uuid,
     success |-> Flag(cis.external_location_id # None),
     error |-> Flag(cie.external_location_id # None
                      /\ cis.external_location_id = None),
     no_output |-> Flag(cie.external_location_id = None
                          /\ cis.external_location_id = None),
     channel_uuid_match |-> Flag(cis.channel_uuid # None /\ zcid.channel_uuid # None
                                   /\ cis.channel_uuid = zcid.channel_uuid)]

\* One row of join_channel_ingest before the window count.
JoinChannelIngestRow(cs, cis, cie, zcid) ==
    [external_location_id |-> cs.external_location_id,
     external_account_id |-> cs.external_account_id,
     external_channel_id |-> cs.external_channel_id,
     direction |-> cs.direction,
     ci_success_channel_uuid |-> cis.channel_uuid,
     channel_uuid_from_zeus |-> zcid.channel_uuid,
     success |-> Flag(cie.external_location_id = None
                        /\ cis.external_location_id # None),
     error |-> Flag(cie.external_location_id # None
                      /\ cis.external_location_id = None),
     no_output |-> Flag(cie.external_location_id = None
                          /\ cis.external_location_id = None),
     channel_uuid_match |-> Flag(cis.channel_uuid # None /\ zcid.channel_uuid # None
                                   /\ cis.channel_uuid = zcid.channel_uuid)]

\* df_cs left join df_cis left join df_cie left join df_zcid (on the
\* channel and on the uuid of the success row).
JoinChannelIngestRows(df_zcid, df_cs, df_cis, df_cie) ==
    LET cs == SetToSeq(df_cs)
        RowsOfSuccess(c, s) ==
            LET es == MatchesSeq(
                        SelectSeq(SetToSeq(df_cie), LAMBDA r : SameChannel(c, r)),
                        NullChannel)
                zs == MatchesSeq(
                        SelectSeq(df_zcid,
                            LAMBDA r : SameChannel(c, r) /\ s.channel_uuid # None
                                         /\ r.channel_uuid = s.channel_uuid),
                        NullChannelWithUuid)
            IN  Flatten([i \in DOMAIN es |->
                    [j \in DOMAIN zs |-> JoinChannelIngestRow(c, s, es[i], zs[j])]])
        RowsOfChannel(c) ==
            LET ss == MatchesSeq(SelectSeq(df_cis, LAMBDA r : SameChannel(c, r)),
                                 NullChannelWithUuid)
            IN  Flatten([i \in DOMAIN ss |-> RowsOfSuccess(c, ss[i])])
    IN  Flatten([i \in DOMAIN cs |-> RowsOfChannel(cs[i])])

\* f.count('summary_external_location_id').over(w): the joined rows of the
\* same raw channel whose location id is not null.
WindowCount(rows, row) ==
    Len(SelectSeq(rows, LAMBDA r : /\ ChannelIdentity(r) = ChannelIdentity(row)
                                   /\ r.external_location_id # None))

Range(s) == {s[i] : i \in DOMAIN s}

\* QualityAlliant.join_channel_ingest: the flag of the window count, then
\* dropDuplicates.
join_channel_ingest(df_zcid, df_cs, df_cis, df_cie) ==
    LET rows == JoinChannelIngestRows(df_zcid, df_cs, df_cis, df_cie)
        flagged == [i \in DOMAIN rows |->
                      [k \in DOMAIN rows[i] \cup {"external_channel_multiple_channel_uuid"} |->
                         IF k = "external_channel_multiple_channel_uuid"
                         THEN Flag(WindowCount(rows, rows[i]) > 1)
                         ELSE rows[i][k]]]
    IN  DataFrame(JoinedChannelIngestColumns, SetToSeq(Range(flagged)))

\* channel_ingest counting the flagged rows instead of the distinct flagged
\* channels.
channel_ingest_counting_rows(t) ==
    LET df == join_channel_ingest(t.df_zcid, t.df_cs, t.df_cis, t.df_cie)
        multiple_channels_mapped_cnt ==
            Len(SelectSeq(df.rows,
                    LAMBDA r : r.external_channel_multiple_channel_uuid = 1))
    IN  [metrics |-> <<
            Scalars(Cardinality(t.df_cs),
                    (Len(t.df_cis) + Cardinality(t.df_cie)) - multiple_channels_mapped_cnt),
            Scalars(0, multiple_channels_mapped_cnt),
            Scalars(Len(t.df_cis),
                    Len(SelectSeq(df.rows, LAMBDA r : r.channel_uuid_match = 1))) >>,
         df_error |-> df]

\* QualityAlliant.channel_ingest up to the call of qc_individual_step.
channel_ingest(t) ==
    LET df == join_channel_ingest(t.df_zcid, t.df_cs, t.df_cis, t.df_cie)
        raw_channel_cnt == Cardinality(t.df_cs)
        channel_ingest_success_cnt == Len(t.df_cis)
        channel_ingest_error_cnt == Cardinality(t.df_cie)
        correctly_mapped_channel_cnt ==
            Len(SelectSeq(df.rows, LAMBDA r : r.channel_uuid_match = 1))
        multiple_channels_mapped_cnt ==
            Cardinality({ChannelIdentity(r) :
                r \in {x \in Range(df.rows) :
                         x.external_channel_multiple_channel_uuid = 1}})
    IN  [metrics |-> <<
            Scalars(raw_channel_cnt,
                    (channel_ingest_success_cnt + channel_ingest_error_cnt)
                      - multiple_channels_mapped_cnt),
            Scalars(0, multiple_channels_mapped_cnt),
            Scalars(channel_ingest_success_cnt, correctly_mapped_channel_cnt) >>,
         df_error |-> df]

(***************************************************************************)
(* The extract common ami step.  Its three extractors group by the channel *)
(* identity: one row per identity.                                         *)
(***************************************************************************)
JoinedExtractColumns ==
    <<"external_location_id", "external_account_id", "external_channel_id",
      "direction", "raw_read_cnt", "channel_uuid", "eca_success_cnt",
      "eca_error_cnt", "eca_total_cnt">>

NullExtractSuccess == [channel_uuid |-> None, eca_success_cnt |-> NoneInt]

NullExtractError == [eca_error_cnt |-> NoneInt]

JoinExtractRow(d, es, ee) ==
    LET eca_success_cnt == FillNa0(es.eca_success_cnt)
        eca_error_cnt == FillNa0(ee.eca_error_cnt)
    IN  [external_location_id |-> d.external_location_id,
         external_account_id |-> d.external_account_id,
         external_channel_id |-> d.external_channel_id,
         direction |-> d.direction,
         raw_read_cnt |-> d.raw_read_cnt,
         channel_uuid |-> es.channel_uuid,
         eca_success_cnt |-> eca_success_cnt,
         eca_error_cnt |-> eca_error_cnt,
         eca_total_cnt |-> eca_success_cnt + eca_error_cnt]

\* QualityAlliant.join_extract_common_ami: df_d left join df_es left join
\* df_ee on the channel identity, fillna(0), the total, orderBy.
join_extract_common_ami(df_d, df_es, df_ee) ==
    LET ds == SetToSeq(df_d)
        RowsOf(d) ==
            LET ss == SetToSeq(Matches({r \in df_es : SameChannel(d, r)},
                                       NullExtractSuccess))
                es == SetToSeq(Matches({r \in df_ee : SameChannel(d, r)},
                                       NullExtractError))
            IN  Flatten([i \in DOMAIN ss |->
                    [j \in DOMAIN es |-> JoinExtractRow(d, ss[i], es[j])]])
    IN  DataFrame(JoinedExtractColumns,
            OrderBy(Flatten([i \in DOMAIN ds |-> RowsOf(ds[i])]), "external_location_id"))

\* x if x else 0
OrZero(x) == IF IsNone(x) THEN 0 ELSE x

\* QualityAlliant.extract_common_ami up to the call of qc_individual_step.
extract_common_ami(t) ==
    LET raw_read_cnt == SumColumn(t.df_d, "raw_read_cnt")
        extract_common_ami_success_cnt == SumColumn(t.df_es, "eca_success_cnt")
        extract_common_ami_error_cnt == SumColumn(t.df_ee, "eca_error_cnt")
    IN  [metrics |-> <<
            Scalars(OrZero(raw_read_cnt),
                    OrZero(extract_common_ami_success_cnt)
                      + OrZero(extract_common_ami_error_cnt)) >>,
         df_error |-> join_extract_common_ami(t.df_d, t.df_es, t.df_ee)]

(***************************************************************************)
(* The load common ami step.  df_e groups by (tenant_id, date_utc): one    *)
(* row per key (a set); df_l is a plain select (a sequence).               *)
(***************************************************************************)
JoinedLoadColumns == <<"tenant_id", "date_utc", "eca_success_cnt", "lca_success_cnt">>

LoadKey(r) == <<r.tenant_id, r.date_utc>>

\* df.agg({column: "sum"}).collect()[0][0] of a sequence of rows.
SumColumnSeq(rows, column) ==
    IF rows = <<>> THEN NoneInt ELSE SumSeq(rows, column)

\* QualityAlliant.join_load_common_ami: the distinct keys of both sides,
\* left joined to each side, fillna(0), orderBy.
join_load_common_ami(df_e, df_l) ==
    LET df == SetToSeq({LoadKey(r) : r \in df_e \cup Range(df_l)})
        RowsOf(key) ==
            LET es == SetToSeq(Matches({r \in df_e : LoadKey(r) = key},
                                       [eca_success_cnt |-> NoneInt]))
                ls == MatchesSeq(SelectSeq(df_l, LAMBDA r : LoadKey(r) = key),
                                 [lca_success_cnt |-> NoneInt])
            IN  Flatten([i \in DOMAIN es |->
                    [j \in DOMAIN ls |->
                        [tenant_id |-> key[1],
                         date_utc |-> key[2],
                         eca_success_cnt |-> FillNa0(es[i].eca_success_cnt),
                         lca_success_cnt |-> FillNa0(ls[j].lca_success_cnt)]]])
    IN  DataFrame(JoinedLoadColumns,
            OrderBy(Flatten([i \in DOMAIN df |-> RowsOf(df[i])]), "date_utc"))

\* QualityAlliant.load_common_ami up to the call of qc_individual_step:
\* the two sums go to the evaluator as they are.
load_common_ami(t) ==
    [metrics |-> <<
        Scalars(SumColumn(t.df_e, "eca_success_cnt"),
                SumColumnSeq(t.df_l, "lca_success_cnt")) >>,
     df_error |-> join_load_common_ami(t.df_e, t.df_l)]

RunIdle ==
    /\ has_manifest = FALSE
    /\ tables = <<>>
    /\ COMPLETED_QC_STEP_LIST = <<>>
    /\ views = <<>>
    /\ summary_sink = <<>>
    /\ qc_sink = <<>>
    /\ phase_log = <<>>
    /\ runs = 0

CleanIdle ==
    /\ full_name = None
    /\ fname = None
    /\ fname_again = None

(***************************************************************************)
(* SpecClean: clean_file_name applied to every bounded name, then to its   *)
(* own result.                                                             *)
(***************************************************************************)
InitClean ==
    /\ pc = "clean"
    /\ full_name \in Strings(NameChars, MaxNameLen) \cup {None}
    /\ fname = None
    /\ fname_again = None
    /\ MetricIdle
    /\ UnionIdle
    /\ RunIdle

CleanFileName ==
    /\ pc = "clean"
    /\ fname' = clean_file_name(full_name)
    /\ pc' = "cleaned"
    /\ UNCHANGED <<full_name, fname_again, metricVars, unionVars, runVars>>

CleanFileNameAgain ==
    /\ pc = "cleaned"
    /\ fname_again' = clean_file_name(fname)
    /\ pc' = "cleaned_twice"
    /\ UNCHANGED <<full_name, fname, metricVars, unionVars, runVars>>

NextClean == CleanFileName \/ CleanFileNameAgain

SpecClean == InitClean /\ [][NextClean]_vars

\* What the file-key rule of the specification prescribes for a non-empty
\* name: the part after the last '/', cut at its first '.'.
FileKeyRule(name) ==
    LET base == LastPart(name)
        dotidx == Find(base, ".")
    IN  IF dotidx >= 0 THEN SubSeq(base, 1, dotidx) ELSE base

Contains(s, c) == \E i \in 1..Len(s) : s[i] = c

\* C7: clean_file_name is idempotent on every input, and None and '' both
\* give 'UNKNOWN'.
C7_Idempotent ==
    /\ pc = "cleaned_twice" => fname_again = fname
    /\ (pc # "clean" /\ full_name \in {None, <<>>}) => fname = UNKNOWN

\* C8: for every non-empty input the result is the part after the last '/'
\* cut at its first '.', and holds neither '/' nor '.'.
C8_LastPartCutAtFirstDot ==
    (pc # "clean" /\ full_name # None /\ Len(full_name) >= 1) =>
        /\ fname = FileKeyRule(full_name)
        /\ ~Contains(fname, "/")
        /\ ~Contains(fname, ".")

(***************************************************************************)
(* SpecMetric: one call of qc_individual_metric for every step and metric, *)
(* every bounded pair of scalars and every bounded joined-row set.         *)
(***************************************************************************)
Flags == {0, 1}

Counts == {0, 1, 2}

SeqsUpTo(S, n) == UNION {[1..k -> S] : k \in 0..n}

\* The columns of the joined rows that the error filters read, per step.
\* Step 1 has two shapes: with a manifest and without one.
DecryptManifestColumns == <<"file_mismatch", "linecount_mismatch", "checksum_mismatch">>

DecryptNoManifestColumns == <<"file_mismatch", "linecount_mismatch">>

ChannelIngestColumns ==
    <<"success", "error", "no_output", "channel_uuid_match",
      "external_channel_multiple_channel_uuid">>

ExtractColumns == <<"raw_read_cnt", "eca_total_cnt">>

LoadColumns == <<"eca_success_cnt", "lca_success_cnt">>

\* The joined rows of join_channel_ingest: at most one of success, error,
\* no_output is 1; a uuid match or a multiple mapping needs a success row.
ChannelIngestRows ==
    {r \in [success : Flags, error : Flags, no_output : Flags,
            channel_uuid_match : Flags,
            external_channel_multiple_channel_uuid : Flags] :
        /\ r.success + r.error + r.no_output <= 1
        /\ (r.error = 1 \/ r.no_output = 1) =>
              /\ r.channel_uuid_match = 0
              /\ r.external_channel_multiple_channel_uuid = 0}

\* The filter columns of the joined rows of a step (with a manifest).
FilterColumnsOf(step) ==
    CASE step = 1 -> DecryptManifestColumns
      [] step = 2 -> ChannelIngestColumns
      [] step = 3 -> ExtractColumns
      [] step = 4 -> LoadColumns

MetricFrames(step) ==
    CASE step = 1 ->
            {DataFrame(DecryptManifestColumns, rows) :
                rows \in SeqsUpTo([file_mismatch : Flags, linecount_mismatch : Flags,
                                   checksum_mismatch : Flags], MaxRows)}
            \cup
            {DataFrame(DecryptNoManifestColumns, rows) :
                rows \in SeqsUpTo([file_mismatch : Flags, linecount_mismatch : Flags],
                                  MaxRows)}
      [] step = 2 ->
            {DataFrame(ChannelIngestColumns, rows) :
                rows \in SeqsUpTo(ChannelIngestRows, MaxRows)}
      [] step = 3 ->
            {DataFrame(ExtractColumns, rows) :
                rows \in SeqsUpTo([raw_read_cnt : Counts, eca_total_cnt : Counts], MaxRows)}
      [] step = 4 ->
            {DataFrame(LoadColumns, rows) :
                rows \in SeqsUpTo([eca_success_cnt : Counts, lca_success_cnt : Counts],
                                  MaxRows)}

ScalarValues == 0..MaxScalar \cup {NoneInt}

InitMetric ==
    /\ pc = "metric"
    /\ CleanIdle
    /\ step_number \in StepNumbers
    /\ metric_number \in MetricKeys(step_number)
    /\ df_error \in MetricFrames(step_number)
    /\ \E l \in ScalarValues, r \in ScalarValues :
          \* without a manifest decrypt passes 0 and 0 for the checksums
          /\ (step_number = 1 /\ metric_number = 3
                /\ df_error.columns = DecryptNoManifestColumns) => (l = 0 /\ r = 0)
          /\ qc_values = (metric_number :> [left_data |-> l, right_data |-> r])
    /\ metric_output = <<>>
    /\ save_calls = <<>>
    /\ error_sink = <<>>
    /\ fault = NoFault
    /\ UnionIdle
    /\ RunIdle

\* qc_individual_metric(spark, step_number, metric_number, left_data,
\* right_data, df_error)
QcIndividualMetricCall ==
    /\ pc = "metric"
    /\ \E write_ok \in BOOLEAN :
          LET res == qc_individual_metric(step_number, metric_number,
                        qc_values[metric_number].left_data,
                        qc_values[metric_number].right_data, df_error, write_ok)
          IN  /\ fault' = res.fault
              /\ metric_output' = res.output
              /\ save_calls' = res.calls
              /\ error_sink' = Written(error_sink, res.calls)
    /\ pc' = "metric_done"
    /\ UNCHANGED <<cleanVars, unionVars, runVars, step_number, metric_number, qc_values,
                   df_error>>

NextMetric == QcIndividualMetricCall

SpecMetric == InitMetric /\ [][NextMetric]_vars

left_of_call == qc_values[metric_number].left_data

right_of_call == qc_values[metric_number].right_data

filter_of_call == QC_META[step_number].metrics[metric_number].error_df_filter_string

message_of_call == QC_META[step_number].metrics[metric_number].error_message

ScalarsOfCall == ~IsNone(left_of_call) /\ ~IsNone(right_of_call)

\* C1: for every step and metric and every pair of scalars with
\* left == right, qc_individual_metric returns qc_status 1 and
\* save_error_rows is not called: nothing is filtered, nothing is written.
C1_EqualPasses ==
    (pc = "metric_done" /\ ScalarsOfCall /\ left_of_call = right_of_call) =>
        /\ fault = NoFault
        /\ DOMAIN metric_output = {metric_number}
        /\ metric_output[metric_number].qc_status = 1
        /\ save_calls = <<>>
        /\ error_sink = <<>>

\* C1 witness: a call with equal scalars over rows one of which satisfies
\* the metric's filter has returned.
C1_Witness ==
    /\ pc = "metric_done" /\ ScalarsOfCall /\ left_of_call = right_of_call
    /\ ~FilterRaises(filter_of_call, df_error)
    /\ \E i \in DOMAIN df_error.rows : RowMatches(filter_of_call, df_error.rows[i])

\* The positions of the rows of the joined-row set that satisfy the filter.
MatchingPositions ==
    {i \in DOMAIN df_error.rows : RowMatches(filter_of_call, df_error.rows[i])}

\* s is t with the column error_message added, holding message.
IsStamped(s, t, message) ==
    /\ DOMAIN s = DOMAIN t \cup {"error_message"}
    /\ s.error_message = message
    /\ \A c \in DOMAIN t : s[c] = t[c]

\* C2: for every step and metric and every pair of scalars with
\* left != right, qc_individual_metric returns qc_status 0 and
\* left_right_delta = left - right, and the rows handed to save_error_rows
\* are exactly the rows of the joined-row set that satisfy the metric's
\* filter (as many, in the same order), each with the metric's error message.
C2_UnequalFails ==
    (pc = "metric_done" /\ ScalarsOfCall /\ left_of_call # right_of_call) =>
        /\ fault \in {NoFault, "WriteError"}
        /\ Len(save_calls) = 1
        /\ LET handed == save_calls[1].df_errors.rows
           IN  /\ Len(handed) = Cardinality(MatchingPositions)
               /\ \E pos \in [DOMAIN handed -> MatchingPositions] :
                     /\ \A i, j \in DOMAIN handed : i < j => pos[i] < pos[j]
                     /\ \A i \in DOMAIN handed :
                           IsStamped(handed[i], df_error.rows[pos[i]], message_of_call)
        /\ fault = NoFault =>
              /\ DOMAIN metric_output = {metric_number}
              /\ metric_output[metric_number].qc_status = 0
              /\ metric_output[metric_number].left_right_delta
                    = left_of_call - right_of_call
              /\ metric_output[metric_number].qc_error_message = message_of_call
              /\ save_calls[1].save_to \in DOMAIN error_sink
              /\ error_sink[save_calls[1].save_to] = save_calls[1].df_errors.rows

\* C2 witness: a failed metric has returned after handing over some but not
\* all of the joined rows.
C2_Witness ==
    /\ pc = "metric_done" /\ ScalarsOfCall /\ left_of_call # right_of_call
    /\ fault = NoFault
    /\ Len(save_calls) = 1
    /\ Len(save_calls[1].df_errors.rows) > 0
    /\ Len(save_calls[1].df_errors.rows) < Len(df_error.rows)

(***************************************************************************)
(* SpecUnion: union_qc_output applied to every bounded list of step        *)
(* outputs.                                                                *)
(***************************************************************************)
\* The result of a metric with the given scalars, as qc_individual_metric
\* returns it when the write of the error rows succeeds.
ResultOf(step, metric, left_data, right_data) ==
    qc_individual_metric(step, metric, left_data, right_data,
                         DataFrame(FilterColumnsOf(step), <<>>), TRUE).output[metric]

\* Step outputs to union: every metric passed, or the first metric failed.
StepOutputs ==
    {QcStepOutput(step, [m \in MetricKeys(step) |-> ResultOf(step, m, 0, 0)]) :
        step \in StepNumbers}
    \cup
    {QcStepOutput(step, [m \in MetricKeys(step) |->
                            ResultOf(step, m, IF m = 1 THEN 1 ELSE 0, 0)]) :
        step \in StepNumbers}

InitUnion ==
    /\ pc = "union"
    /\ CleanIdle
    /\ MetricIdle
    /\ RunIdle
    /\ step_list \in SeqsUpTo(StepOutputs, MaxStepList)
    /\ df_output = DataFrame(<<>>, <<>>)

\* union_qc_output(spark, step_list)
UnionQcOutput ==
    /\ pc = "union"
    /\ df_output' \in union_qc_output(step_list)
    /\ pc' = "unioned"
    /\ UNCHANGED <<cleanVars, metricVars, runVars, step_list>>

NextUnion == UnionQcOutput

SpecUnion == InitUnion /\ [][NextUnion]_vars

\* How many times row occurs in rows.
Occurrences(rows, row) == Cardinality({i \in DOMAIN rows : rows[i] = row})

SortedById(rows) ==
    \A i, j \in DOMAIN rows : i < j => ~StrLess(rows[j].id, rows[i].id)

\* C6: union_qc_output of an empty list returns zero rows under the six
\* columns id, name, execution_date, metrics, qc_reference, misc, the
\* schema of the non-empty case; of a non-empty list it returns all the
\* given records, each as often as given, in ascending order of id.
C6_UnionSorted ==
    pc = "unioned" =>
        /\ df_output.columns = <<"id", "name", "execution_date", "metrics",
                                 "qc_reference", "misc">>
        /\ \A i \in DOMAIN step_list : step_list[i].columns = df_output.columns
        /\ Len(step_list) = 0 => df_output.rows = <<>>
        /\ Len(df_output.rows) = Len(step_list)
        /\ \A i \in DOMAIN step_list :
              Occurrences(df_output.rows, step_list[i].rows[1])
                = Cardinality({j \in DOMAIN step_list : step_list[j] = step_list[i]})
        /\ SortedById(df_output.rows)

\* C6 witness: a list given out of order (a later step first) was unioned.
C6_Witness ==
    /\ pc = "unioned"
    /\ Len(step_list) >= 2
    /\ StrLess(step_list[2].rows[1].id, step_list[1].rows[1].id)

(***************************************************************************)
(* The step orchestrator qc_individual_step, as the steps call it.         *)
(***************************************************************************)
\* qc_individual_step going on with the next metric after an exception of
\* qc_individual_metric.
QcIndividualStepMetric_going_on ==
    /\ pc = "qc_step"
    /\ metric_number \in MetricKeys(step_number)
    /\ \E write_ok \in BOOLEAN :
          LET res == qc_individual_metric(step_number, metric_number,
                        qc_values[metric_number].left_data,
                        qc_values[metric_number].right_data, df_error, write_ok)
          IN  /\ fault' = res.fault
              /\ save_calls' = save_calls \o res.calls
              /\ error_sink' = Written(error_sink, res.calls)
              /\ metric_output' = res.output @@ metric_output
              /\ metric_number' = metric_number + 1
              /\ pc' = "qc_step"
    /\ UNCHANGED <<cleanVars, unionVars, step_number, qc_values, df_error,
                   has_manifest, tables, COMPLETED_QC_STEP_LIST, views,
                   summary_sink, qc_sink, phase_log, runs>>

\* qc_individual_step evaluating every other metric only.
QcIndividualStepMetric_every_other ==
    /\ pc = "qc_step"
    /\ metric_number \in MetricKeys(step_number)
    /\ \E write_ok \in BOOLEAN :
          LET res == qc_individual_metric(step_number, metric_number,
                        qc_values[metric_number].left_data,
                        qc_values[metric_number].right_data, df_error, write_ok)
          IN  /\ fault' = res.fault
              /\ save_calls' = save_calls \o res.calls
              /\ error_sink' = Written(error_sink, res.calls)
              /\ IF res.fault = NoFault
                 THEN /\ metric_output' = res.output @@ metric_output
                      /\ metric_number' = metric_number + 2
                      /\ pc' = "qc_step"
                 ELSE /\ pc' = "aborted"
                      /\ UNCHANGED <<metric_output, metric_number>>
    /\ UNCHANGED <<cleanVars, unionVars, step_number, qc_values, df_error,
                   has_manifest, tables, COMPLETED_QC_STEP_LIST, views,
                   summary_sink, qc_sink, phase_log, runs>>

\* qc_individual_step with the joined rows of the step replaced by the
\* error rows of a failed metric.
QcIndividualStepMetric_filtering_in_place ==
    /\ pc = "qc_step"
    /\ metric_number \in MetricKeys(step_number)
    /\ \E write_ok \in BOOLEAN :
          LET res == qc_individual_metric(step_number, metric_number,
                        qc_values[metric_number].left_data,
                        qc_values[metric_number].right_data, df_error, write_ok)
          IN  /\ fault' = res.fault
              /\ save_calls' = save_calls \o res.calls
              /\ error_sink' = Written(error_sink, res.calls)
              /\ df_error' =
                    IF res.calls = <<>> THEN df_error
                    ELSE DataFrame(df_error.columns,
                            SelectSeq(df_error.rows,
                                LAMBDA r : RowMatches(
                                    QC_META[step_number].metrics[metric_number]
                                        .error_df_filter_string, r)))
              /\ IF res.fault = NoFault
                 THEN /\ metric_output' = res.output @@ metric_output
                      /\ metric_number' = metric_number + 1
                      /\ pc' = "qc_step"
                 ELSE /\ pc' = "aborted"
                      /\ UNCHANGED <<metric_output, metric_number>>
    /\ UNCHANGED <<cleanVars, unionVars, step_number, qc_values,
                   has_manifest, tables, COMPLETED_QC_STEP_LIST, views,
                   summary_sink, qc_sink, phase_log, runs>>

\* One pass of the loop of qc_individual_step: qc_individual_metric for the
\* metric metric_number.  An exception ends the run.
QcIndividualStepMetric ==
    /\ pc = "qc_step"
    /\ metric_number \in MetricKeys(step_number)
    /\ \E write_ok \in BOOLEAN :
          LET res == qc_individual_metric(step_number, metric_number,
                        qc_values[metric_number].left_data,
                        qc_values[metric_number].right_data, df_error, write_ok)
          IN  /\ fault' = res.fault
              /\ save_calls' = save_calls \o res.calls
              /\ error_sink' = Written(error_sink, res.calls)
              /\ IF res.fault = NoFault
                 THEN /\ metric_output' = res.output @@ metric_output
                      /\ metric_number' = metric_number + 1
                      /\ pc' = "qc_step"
                 ELSE /\ pc' = "aborted"
                      /\ UNCHANGED <<metric_output, metric_number>>
    /\ UNCHANGED <<cleanVars, unionVars, step_number, qc_values, df_error,
                   has_manifest, tables, COMPLETED_QC_STEP_LIST, views,
                   summary_sink, qc_sink, phase_log, runs>>

\* run calling load_common_ami after channel_ingest.
AfterStep_skipping(step) ==
    CASE step = 1 -> "channel_ingest"
      [] step = 2 -> "load_common_ami"
      [] step = 3 -> "load_common_ami"
      [] step = 4 -> "union_qc_output"

\* What run calls after a step.
AfterStep(step) ==
    CASE step = 1 -> "channel_ingest"
      [] step = 2 -> "extract_common_ami"
      [] step = 3 -> "load_common_ami"
      [] step = 4 -> "union_qc_output"

\* The end of qc_individual_step and of the step function: the output row
\* is built and appended to COMPLETED_QC_STEP_LIST; the locals of the step
\* are gone.
QcIndividualStepOutput ==
    /\ pc = "qc_step"
    /\ metric_number \notin MetricKeys(step_number)
    /\ COMPLETED_QC_STEP_LIST' =
          Append(COMPLETED_QC_STEP_LIST, QcStepOutput(step_number, metric_output))
    /\ pc' = AfterStep(step_number)
    /\ step_number' = 0
    /\ metric_number' = 0
    /\ qc_values' = <<>>
    /\ df_error' = DataFrame(<<>>, <<>>)
    /\ metric_output' = <<>>
    /\ tables' = <<>>
    /\ UNCHANGED <<cleanVars, unionVars, save_calls, error_sink, fault,
                   has_manifest, views, summary_sink, qc_sink, phase_log, runs>>

\* The start of a step function, up to its call of qc_individual_step
\* with the qc_values and the joined rows in computed: the step is logged
\* as started; a read of a view that is not registered raises.
StartStep(name, step, reads, t, computed) ==
    /\ pc = name
    /\ phase_log' = Append(phase_log, name)
    /\ tables' = t
    /\ IF \E v \in reads : v \notin DOMAIN views
       THEN /\ fault' = "AnalysisException"
            /\ pc' = "aborted"
            /\ UNCHANGED <<step_number, metric_number, qc_values, df_error,
                           metric_output>>
       ELSE /\ qc_values' = computed.metrics
            /\ df_error' = computed.df_error
            /\ step_number' = step
            /\ metric_number' = 1
            /\ metric_output' = <<>>
            /\ pc' = "qc_step"
            /\ UNCHANGED fault
    /\ UNCHANGED <<cleanVars, unionVars, save_calls, error_sink,
                   has_manifest, COMPLETED_QC_STEP_LIST, views,
                   summary_sink, qc_sink, runs>>

\* QualityAlliant.decrypt on the extractor outputs t.  It reads the view
\* 'ami_summary'; collect() returns the checksums in any order.
Decrypt(t) ==
    /\ pc = "decrypt"
    /\ \E manifest_checksum_list \in CollectColumn(t.df_m, "manifest_checksum"),
          audit_checksum_list \in CollectColumn(t.df_a, "audit_checksum") :
           StartStep("decrypt", 1, {"ami_summary"}, t,
                     decrypt(has_manifest, t, manifest_checksum_list,
                             audit_checksum_list))

(***************************************************************************)
(* SpecDecrypt: the decrypt step on every bounded manifest, audit,         *)
(* encrypted and decrypted-summary table.                                  *)
(***************************************************************************)
FileNames == {<<"f", "1">>, <<"f", "2">>}

Checksums == {<<"a">>, <<"b">>}

LineCounts == {1, 2}

ManifestRows ==
    [manifest_filename : FileNames, manifest_checksum : Checksums,
     manifest_linecount : LineCounts]

\* get_decrypted_audit ends in dropDuplicates: no two equal rows.
AuditRows ==
    [audit_filename : FileNames, audit_checksum : Checksums, audit_linecount : LineCounts]

\* get_encrypted ends in distinct.
EncryptedRows == [encrypted_filename : FileNames]

\* get_decrypted_summary groups by the file name: one row per file.
DecryptedTables ==
    {T \in SUBSET [decrypted_filename : FileNames, decrypted_linecount : LineCounts] :
        \A r, s \in T : r.decrypted_filename = s.decrypted_filename => r = s}

DecryptTables(manifest) ==
    IF manifest
    THEN [df_m : SubsetsUpTo(ManifestRows, MaxRows),
          df_a : SubsetsUpTo(AuditRows, MaxRows),
          df_e : {{}}, df_d : {{}}]
    ELSE [df_m : {{}},
          df_a : SubsetsUpTo(AuditRows, MaxRows),
          df_e : SUBSET EncryptedRows,
          df_d : DecryptedTables]

InitDecrypt ==
    /\ pc = "decrypt"
    /\ CleanIdle
    /\ MetricIdle
    /\ UnionIdle
    /\ has_manifest \in BOOLEAN
    /\ tables = <<>>
    /\ COMPLETED_QC_STEP_LIST = <<>>
    /\ views = [v \in {"ami_summary"} |-> [source |-> "parquet", run |-> 0]]
    /\ summary_sink = <<>>
    /\ qc_sink = <<>>
    /\ phase_log = <<>>
    /\ runs = 0

\* The decrypt step on any of the bounded tables.
DecryptBounded ==
    /\ pc = "decrypt"
    /\ \E t \in DecryptTables(has_manifest) : Decrypt(t)

NextDecrypt ==
    \/ DecryptBounded
    \/ QcIndividualStepMetric
    \/ QcIndividualStepOutput

SpecDecrypt == InitDecrypt /\ [][NextDecrypt]_vars

\* The decrypt step has computed its scalars from a manifest.
DecryptWithManifest ==
    /\ step_number = 1
    /\ has_manifest
    /\ pc \in {"qc_step", "aborted"}

\* C9: the checksum comparison of the decrypt step (metric 3, with a
\* manifest) does not depend on the order of the rows: whatever order the
\* manifest checksums and the audit checksums are collected in, the left
\* and right checksum scalars are the same, and so is the verdict.
C9_ChecksumOrderIndependent ==
    DecryptWithManifest =>
        \A manifest_checksum_list \in CollectColumn(tables.df_m, "manifest_checksum"),
           audit_checksum_list \in CollectColumn(tables.df_a, "audit_checksum") :
            /\ qc_values[3].left_data = checksum_scalar(manifest_checksum_list)
            /\ qc_values[3].right_data = checksum_scalar(audit_checksum_list)
            /\ 3 \in DOMAIN metric_output =>
                  (metric_output[3].qc_status = 1
                     <=> checksum_scalar(manifest_checksum_list)
                           = checksum_scalar(audit_checksum_list))

\* C9 witness: metric 3 was evaluated for a manifest and an audit that each
\* hold two different checksums, so that each can be collected in two orders.
C9_Witness ==
    /\ DecryptWithManifest
    /\ 3 \in DOMAIN metric_output
    /\ Cardinality({m.manifest_checksum : m \in tables.df_m}) = 2
    /\ Cardinality({a.audit_checksum : a \in tables.df_a}) = 2
    /\ metric_output[3].qc_status = 1

\* The manifest and the audit list the same files with the same line count
\* and checksum for each.
SameListing ==
    {<<m.manifest_filename, m.manifest_linecount, m.manifest_checksum>> :
        m \in tables.df_m}
    = {<<a.audit_filename, a.audit_linecount, a.audit_checksum>> : a \in tables.df_a}

\* The loop of qc_individual_step over the metrics has ended, or an
\* exception has ended it.
StepEvaluated ==
    \/ pc = "aborted"
    \/ pc = "qc_step" /\ metric_number \notin MetricKeys(step_number)

AllMetricsPassNothingWritten ==
    /\ pc # "aborted"
    /\ \A m \in MetricKeys(step_number) :
          m \in DOMAIN metric_output /\ metric_output[m].qc_status = 1
    /\ save_calls = <<>>
    /\ error_sink = <<>>

\* C10: with a manifest, whenever the manifest and the audit list the same
\* set of files with identical line counts and checksums per file, the
\* decrypt metrics 1, 2 and 3 all have status 1 and no error rows are
\* written.
C10_SameListingPasses ==
    (DecryptWithManifest /\ StepEvaluated /\ SameListing) =>
        AllMetricsPassNothingWritten

\* What holds of the code for C10: the same for every listing of at least
\* one file (the sum of no line counts is None).
C10_NonEmptyListingPasses ==
    (DecryptWithManifest /\ StepEvaluated /\ SameListing /\ tables.df_m # {}) =>
        AllMetricsPassNothingWritten

\* A listing of two files on both sides was evaluated.
C10_TwoFilesEvaluated ==
    /\ DecryptWithManifest /\ StepEvaluated /\ SameListing
    /\ Cardinality({m.manifest_filename : m \in tables.df_m}) = 2

(***************************************************************************)
(* Spec: the process.  A QualityAlliant is constructed, run is called, and *)
(* after a run that completed run may be called again in the same process. *)
(* Each step reads the extractor outputs the catalog holds at that moment. *)
(***************************************************************************)
\* The phases of run, as phase_log names them.
PhaseOrder ==
    <<"setup", "decrypt", "channel_ingest", "extract_common_ami", "load_common_ami",
      "union_qc_output", "save_output">>

\* The call of run.
Run ==
    /\ pc \in {"idle", "done"}
    /\ runs < MaxRuns
    /\ runs' = runs + 1
    /\ pc' = "setup"
    /\ phase_log' = <<>>
    /\ save_calls' = <<>>
    /\ df_output' = DataFrame(<<>>, <<>>)
    /\ UNCHANGED <<cleanVars, step_list, step_number, metric_number, qc_values,
                   df_error, metric_output, error_sink, fault, has_manifest, tables,
                   COMPLETED_QC_STEP_LIST, views, summary_sink, qc_sink>>

\* A registered view: where its rows come from and the run that registered it.
View(source) == [source |-> source, run |-> runs]

\* setup_common_ami_summary_raw_to_rollup without the try/except around the
\* save of the summary: a failed save ends the run.
SetupCommonAmiSummaryRawToRollup_raising ==
    /\ pc = "setup"
    /\ phase_log' = Append(phase_log, "setup")
    /\ \E write_ok \in BOOLEAN :
          /\ summary_sink' = IF write_ok THEN <<runs>> ELSE summary_sink
          /\ views' = IF write_ok
                        THEN ("ami_summary" :> View("parquet"))
                                @@ ("raw_to_rollup_ami" :> View("persisted")) @@ views
                        ELSE views
          /\ pc' = IF write_ok THEN "decrypt" ELSE "aborted"
          /\ fault' = IF write_ok THEN fault ELSE "WriteError"
    /\ UNCHANGED <<cleanVars, step_number, metric_number, qc_values, df_error,
                   metric_output, save_calls, error_sink, unionVars,
                   has_manifest, tables, COMPLETED_QC_STEP_LIST, qc_sink, runs>>

\* setup_common_ami_summary_raw_to_rollup: get_and_save_ami_summary saves
\* the summary and registers 'ami_summary' from the saved file, or, when the
\* save raised, from the persisted dataframe; then 'raw_to_rollup_ami' is
\* registered.
SetupCommonAmiSummaryRawToRollup ==
    /\ pc = "setup"
    /\ phase_log' = Append(phase_log, "setup")
    /\ \E write_ok \in BOOLEAN :
          /\ summary_sink' = IF write_ok THEN <<runs>> ELSE summary_sink
          /\ views' = ("ami_summary" :> View(IF write_ok THEN "parquet" ELSE "persisted"))
                        @@ ("raw_to_rollup_ami" :> View("persisted")) @@ views
    /\ pc' = "decrypt"
    /\ UNCHANGED <<cleanVars, metricVars, unionVars, has_manifest, tables,
                   COMPLETED_QC_STEP_LIST, qc_sink, runs>>

Channel(n) ==
    [external_location_id |-> <<"a", n>>, external_account_id |-> <<"b", n>>,
     external_channel_id |-> <<"c", n>>, direction |-> <<"D">>]

\* The row of channel n with further columns.
ChannelRow(n, columns) == columns @@ Channel(n)

\* The extractor outputs a step of the current run may read, out of the
\* listed ones: any of them in the first run of the process, those at the
\* positions later in the runs after it (the state of a later run carries
\* the outputs of every run before it).
TablesOfRun(listed, later) ==
    {listed[i] : i \in IF runs <= 1 THEN DOMAIN listed ELSE later}

\* The extractor outputs of the decrypt step in a run: a listing that
\* matches, one that differs, and one with an empty side.
RunDecryptTables(manifest) ==
    LET m(n) == [manifest_filename |-> <<"f", "1">>, manifest_checksum |-> <<"a">>,
                 manifest_linecount |-> n]
        a(n) == [audit_filename |-> <<"f", "1">>, audit_checksum |-> <<"a">>,
                 audit_linecount |-> n]
        e(k) == [encrypted_filename |-> <<"f", k>>]
        d(n) == [decrypted_filename |-> <<"f", "1">>, decrypted_linecount |-> n]
    IN  IF manifest
        THEN TablesOfRun(
               <<[df_m |-> {m(1)}, df_a |-> {a(1)}, df_e |-> {}, df_d |-> {}],
                 [df_m |-> {m(2)}, df_a |-> {a(1)}, df_e |-> {}, df_d |-> {}],
                 [df_m |-> {m(1)}, df_a |-> {}, df_e |-> {}, df_d |-> {}]>>, {1, 3})
        ELSE TablesOfRun(
               <<[df_m |-> {}, df_a |-> {a(1)}, df_e |-> {e("1")}, df_d |-> {d(1)}],
                 [df_m |-> {}, df_a |-> {a(1)}, df_e |-> {e("1"), e("2")},
                  df_d |-> {d(1)}],
                 [df_m |-> {}, df_a |-> {}, df_e |-> {}, df_d |-> {}]>>, {1, 3})

\* Of the channel ingest step: every channel mapped once, a channel without
\* output, a channel mapped to two uuids.
RunChannelIngestTables ==
    LET uuid(k) == [channel_uuid |-> <<"e", k>>]
    IN  TablesOfRun(
          <<[df_cs |-> {Channel("1")}, df_cie |-> {},
             df_cis |-> <<ChannelRow("1", uuid("1"))>>,
             df_zcid |-> <<ChannelRow("1", uuid("1"))>>],
            [df_cs |-> {Channel("1")}, df_cie |-> {}, df_cis |-> <<>>, df_zcid |-> <<>>],
            [df_cs |-> {Channel("1")}, df_cie |-> {},
             df_cis |-> <<ChannelRow("1", uuid("1")), ChannelRow("1", uuid("2"))>>,
             df_zcid |-> <<ChannelRow("1", uuid("1")), ChannelRow("1", uuid("2"))>>]>>,
          {1})

\* Of the extract step: all reads extracted, a read lost, no reads at all.
RunExtractTables ==
    LET d(n) == ChannelRow("1", [raw_read_cnt |-> n])
        es(n) == ChannelRow("1", [channel_uuid |-> <<"e", "1">>, eca_success_cnt |-> n])
    IN  TablesOfRun(
          <<[df_d |-> {d(2)}, df_es |-> {es(2)}, df_ee |-> {}],
            [df_d |-> {d(2)}, df_es |-> {es(1)}, df_ee |-> {}],
            [df_d |-> {}, df_es |-> {}, df_ee |-> {}]>>, {1})

\* Of the load step: all rows loaded, a row lost, no rows at all.
RunLoadTables ==
    LET e(n) == [tenant_id |-> 1, date_utc |-> <<"0", "1">>, eca_success_cnt |-> n]
        l(n) == [tenant_id |-> 1, date_utc |-> <<"0", "1">>, lca_success_cnt |-> n]
    IN  TablesOfRun(
          <<[df_e |-> {e(2)}, df_l |-> <<l(2)>>],
            [df_e |-> {e(2)}, df_l |-> <<l(1)>>],
            [df_e |-> {}, df_l |-> <<>>]>>, {1})

\* QualityAlliant.decrypt, called by run.
RunDecrypt ==
    /\ pc = "decrypt"
    /\ \E t \in RunDecryptTables(has_manifest) : Decrypt(t)

\* QualityAlliant.channel_ingest
ChannelIngest ==
    /\ pc = "channel_ingest"
    /\ \E t \in RunChannelIngestTables :
          StartStep("channel_ingest", 2, {"ami_summary"}, t, channel_ingest(t))

\* QualityAlliant.extract_common_ami
ExtractCommonAmi ==
    /\ pc = "extract_common_ami"
    /\ \E t \in RunExtractTables :
          StartStep("extract_common_ami", 3, {"ami_summary"}, t, extract_common_ami(t))

\* QualityAlliant.load_common_ami
LoadCommonAmi ==
    /\ pc = "load_common_ami"
    /\ \E t \in RunLoadTables :
          StartStep("load_common_ami", 4, {}, t, load_common_ami(t))

\* run: df_output = union_qc_output(spark, COMPLETED_QC_STEP_LIST)
RunUnionQcOutput ==
    /\ pc = "union_qc_output"
    /\ phase_log' = Append(phase_log, "union_qc_output")
    /\ df_output' \in union_qc_output(COMPLETED_QC_STEP_LIST)
    /\ pc' = "save_output"
    /\ UNCHANGED <<cleanVars, metricVars, step_list, has_manifest, tables,
                   COMPLETED_QC_STEP_LIST, views, summary_sink, qc_sink, runs>>

\* run: save_output(df_output, 2) overwrites the QC report, or raises; then
\* the view 'output' is registered.
SaveOutput ==
    /\ pc = "save_output"
    /\ phase_log' = Append(phase_log, "save_output")
    /\ \E write_ok \in BOOLEAN :
          IF write_ok
          THEN /\ qc_sink' = df_output.rows
               /\ views' = ("output" :> View("df_output")) @@ views
               /\ pc' = "done"
               /\ UNCHANGED fault
          ELSE /\ fault' = "WriteError"
               /\ pc' = "aborted"
               /\ UNCHANGED <<qc_sink, views>>
    /\ UNCHANGED <<cleanVars, unionVars, step_number, metric_number, qc_values,
                   df_error, metric_output, save_calls, error_sink, has_manifest,
                   tables, COMPLETED_QC_STEP_LIST, summary_sink, runs>>

\* The state after construction.
Init ==
    /\ pc = "idle"
    /\ CleanIdle
    /\ MetricIdle
    /\ UnionIdle
    /\ has_manifest \in BOOLEAN
    /\ tables = <<>>
    /\ COMPLETED_QC_STEP_LIST = <<>>
    /\ views = <<>>
    /\ summary_sink = <<>>
    /\ qc_sink = <<>>
    /\ phase_log = <<>>
    /\ runs = 0

Next ==
    \/ Run
    \/ SetupCommonAmiSummaryRawToRollup
    \/ RunDecrypt
    \/ ChannelIngest
    \/ ExtractCommonAmi
    \/ LoadCommonAmi
    \/ QcIndividualStepMetric
    \/ QcIndividualStepOutput
    \/ RunUnionQcOutput
    \/ SaveOutput

Spec == Init /\ [][Next]_vars

\* The step outputs the current run has appended to COMPLETED_QC_STEP_LIST:
\* a run starts only after the runs before it have completed, each of
\* which appended one output per step.
CurrentRunRecords ==
    IF runs = 0 THEN <<>>
    ELSE SubSeq(COMPLETED_QC_STEP_LIST, Len(QC_META) * (runs - 1) + 1,
                Len(COMPLETED_QC_STEP_LIST))

\* A metric of the current run has failed and its error rows were saved.
FailedMetricPersisted ==
    \/ \E m \in DOMAIN metric_output : metric_output[m].qc_status = 0
    \/ \E i \in DOMAIN CurrentRunRecords :
          \E m \in DOMAIN CurrentRunRecords[i].rows[1].metrics :
              CurrentRunRecords[i].rows[1].metrics[m].qc_status = 0

\* The report holds, for every step, the record of the current run with a
\* result for every registered metric.
ReportHoldsCurrentRun ==
    /\ Len(CurrentRunRecords) = Len(QC_META)
    /\ \A step \in StepNumbers :
          LET record == CurrentRunRecords[step].rows[1]
          IN  /\ record.id = ToStr(step)
              /\ DOMAIN record.metrics = MetricKeys(step)
              /\ \E i \in DOMAIN df_output.rows : df_output.rows[i] = record

\* C3: a failed metric never aborts the run: as long as the saves succeed,
\* every later metric of the step and every later step is evaluated, and
\* the results are in the final report.  So a run in which a metric has
\* failed is aborted by a failed save only, and the report it unions holds
\* every result.
C3_FailedMetricNeverAborts ==
    /\ (FailedMetricPersisted /\ pc = "aborted") => fault = "WriteError"
    /\ (FailedMetricPersisted /\ pc \in {"save_output", "done"}) => ReportHoldsCurrentRun

\* What holds of the code for C3: the evaluation of a failed metric whose
\* error rows were saved goes on to the next metric, and a completed run
\* reports every result; a later metric can still raise on a None operand.
C3_FailedMetricGoesOn ==
    /\ (FailedMetricPersisted /\ pc = "aborted") => fault \in {"WriteError", "TypeError"}
    /\ (FailedMetricPersisted /\ pc \in {"save_output", "done"}) => ReportHoldsCurrentRun

\* How many step outputs a run has appended when the phase after the
\* logged phases starts.
StepsCompletedAfter(log) ==
    IF Len(log) <= 1 THEN 0
    ELSE IF Len(log) - 1 >= Len(QC_META) THEN Len(QC_META)
    ELSE Len(log) - 1

PhasesInOrder ==
    /\ Len(phase_log) <= Len(PhaseOrder)
    /\ phase_log = SubSeq(PhaseOrder, 1, Len(phase_log))
    /\ pc = "done" => phase_log = PhaseOrder
    /\ pc = "aborted" => phase_log # <<>>
    /\ fault # "AnalysisException"
    /\ Len(phase_log) >= 2 =>
          /\ "ami_summary" \in DOMAIN views
          /\ views["ami_summary"].run = runs

\* A phase starts when no step is in progress and every step before it has
\* appended its output.
PhaseStartsAfterPrevious ==
    (phase_log' # phase_log /\ phase_log' # <<>>) =>
        /\ phase_log' = Append(phase_log, PhaseOrder[Len(phase_log) + 1])
        /\ step_number = 0
        /\ metric_output = <<>>
        /\ Len(CurrentRunRecords) = StepsCompletedAfter(phase_log)

\* C4: in every run the phases setup, decrypt, channel_ingest,
\* extract_common_ami, load_common_ami, union_qc_output, save_output happen
\* in this order, none skipped and none started before the one before it
\* has finished; the view 'ami_summary' is registered by the setup of the
\* run before a step reads it.
C4_PhaseOrder == [][PhaseStartsAfterPrevious]_vars /\ []PhasesInOrder

\* C4 witness: a second run has completed, its summary view registered by
\* its own setup.
C4_Witness ==
    /\ pc = "done"
    /\ runs = 2
    /\ phase_log = PhaseOrder
    /\ views["ami_summary"].run = 2

\* C5: whenever run completes, the saved QC report holds exactly one record
\* per step, ids 1, 2, 3, 4 in this order, also in a second or later run
\* in the same process.
C5_OneRecordPerStep ==
    pc = "done" =>
        [i \in DOMAIN qc_sink |-> qc_sink[i].id] = [step \in StepNumbers |-> ToStr(step)]

\* What holds of the code for C5: the report of the n-th run of the process
\* holds n records of every step, in ascending order of id.
C5_RecordsOfEveryRun ==
    pc = "done" =>
        /\ Len(qc_sink) = runs * Len(QC_META)
        /\ \A step \in StepNumbers :
              Cardinality({i \in DOMAIN qc_sink : qc_sink[i].id = ToStr(step)}) = runs
        /\ SortedById(qc_sink)

\* The manifest and the audit each list a file once, and list the same files.
SameFilesOnce ==
    /\ \A m, n \in tables.df_m : m.manifest_filename = n.manifest_filename => m = n
    /\ \A a, b \in tables.df_a : a.audit_filename = b.audit_filename => a = b
    /\ {m.manifest_filename : m \in tables.df_m} = {a.audit_filename : a \in tables.df_a}

\* The manifest rows whose line count differs from the audit's of the file.
LinecountDiffers ==
    {m \in tables.df_m :
        \E a \in tables.df_a : /\ a.audit_filename = m.manifest_filename
                               /\ a.audit_linecount # m.manifest_linecount}

\* Metric metric of the step was evaluated: it returned, or it raised.
MetricEvaluated(metric) ==
    \/ metric \in DOMAIN metric_output
    \/ pc = "aborted" /\ metric_number = metric

\* C11: with a manifest, when the manifest and the audit list the same
\* files and exactly one file f has a manifest line count different from
\* its audit line count, metric 2 of decrypt has status 0 and delta
\* (manifest line count of f) - (audit line count of f), and exactly one
\* error row, the row of f, is filtered and saved with the message
\* 'audit line count does not match manifest'.
C11_OneLinecountMismatch ==
    (DecryptWithManifest /\ SameFilesOnce /\ Cardinality(LinecountDiffers) = 1
       /\ MetricEvaluated(2)) =>
        LET f == CHOOSE m \in LinecountDiffers : TRUE
            a == CHOOSE r \in tables.df_a : r.audit_filename = f.manifest_filename
            call == save_calls[1]
        IN  /\ fault \in {NoFault, "WriteError"}
            /\ Len(save_calls) >= 1
            /\ call.step_number = 1 /\ call.metric_number = 2
            /\ Len(call.df_errors.rows) = 1
            /\ call.df_errors.rows[1].manifest_filename = f.manifest_filename
            /\ call.df_errors.rows[1].error_message
                  = "audit line count does not match manifest"
            /\ 2 \in DOMAIN metric_output =>
                  /\ metric_output[2].qc_status = 0
                  /\ metric_output[2].left_right_delta
                        = f.manifest_linecount - a.audit_linecount
                  /\ metric_output[2].qc_error_message
                        = "audit line count does not match manifest"
                  /\ metric_output[2].qc_error_path = call.save_to
                  /\ error_sink[call.save_to] = call.df_errors.rows

\* C11 witness: of two files listed on both sides one differs in the line
\* count, and metric 2 has returned.
C11_Witness ==
    /\ DecryptWithManifest /\ SameFilesOnce /\ Cardinality(LinecountDiffers) = 1
    /\ Cardinality(tables.df_m) = 2
    /\ 2 \in DOMAIN metric_output

(***************************************************************************)
(* SpecChannelIngest: the channel ingest step on every bounded raw channel *)
(* set, ingest success and error output and channel map.                   *)
(***************************************************************************)
Channels == {Channel("1"), Channel("2")}

ChannelUuids == {<<"e", "1">>, <<"e", "2">>}

\* Rows of get_channel_ingest_success and of get_zeus_channel_map (the
\* columns the step reads): a channel and a channel_uuid.
ChannelUuidRows == {[channel_uuid |-> u] @@ c : c \in Channels, u \in ChannelUuids}

\* The tables of at most n rows out of S that may repeat a row: one
\* sequence per multiset, the rows in the order of SetToSeq(S).
BagsUpTo(S, n) ==
    LET order == SetToSeq(S)
        Index(x) == CHOOSE i \in DOMAIN order : order[i] = x
    IN  {s \in SeqsUpTo(S, n) :
            \A i \in DOMAIN s : i < Len(s) => Index(s[i]) <= Index(s[i + 1])}

ChannelIngestTables ==
    [df_cs : SUBSET Channels,
     df_cie : SUBSET Channels,
     df_cis : BagsUpTo(ChannelUuidRows, MaxRows),
     df_zcid : BagsUpTo(ChannelUuidRows, MaxRows)]

InitChannelIngest ==
    /\ pc = "channel_ingest"
    /\ CleanIdle
    /\ MetricIdle
    /\ UnionIdle
    /\ has_manifest = FALSE
    /\ tables = <<>>
    /\ COMPLETED_QC_STEP_LIST = <<>>
    /\ views = [v \in {"ami_summary"} |-> [source |-> "parquet", run |-> 0]]
    /\ summary_sink = <<>>
    /\ qc_sink = <<>>
    /\ phase_log = <<>>
    /\ runs = 0

\* The channel ingest step on any of the bounded tables.
ChannelIngestBounded ==
    /\ pc = "channel_ingest"
    /\ \E t \in ChannelIngestTables :
          StartStep("channel_ingest", 2, {"ami_summary"}, t, channel_ingest(t))

NextChannelIngest ==
    \/ ChannelIngestBounded
    \/ QcIndividualStepMetric
    \/ QcIndividualStepOutput

SpecChannelIngest == InitChannelIngest /\ [][NextChannelIngest]_vars

\* The channel ingest step has computed its scalars and joined rows.
ChannelIngestStarted ==
    /\ step_number = 2
    /\ pc \in {"qc_step", "aborted"}

\* The channel identities with two distinct channel uuids in the ingest
\* success output.
MultiplyMapped ==
    {c \in {ChannelIdentity(s) : s \in Range(tables.df_cis)} :
        Cardinality({s.channel_uuid :
            s \in {x \in Range(tables.df_cis) : ChannelIdentity(x) = c}}) >= 2}

RawChannels == {ChannelIdentity(c) : c \in tables.df_cs}

\* The channel identities of the joined rows flagged as mapped to several
\* channel uuids.
FlaggedChannels ==
    {ChannelIdentity(r) :
        r \in {x \in Range(df_error.rows) : x.external_channel_multiple_channel_uuid = 1}}

\* The joined rows of channel identity c are all flagged, there is one, and
\* the right value of metric 2 counts every flagged channel once.
FlaggedAndCountedOnce(c) ==
    /\ \A i \in DOMAIN df_error.rows :
          ChannelIdentity(df_error.rows[i]) = c
            => df_error.rows[i].external_channel_multiple_channel_uuid = 1
    /\ c \in FlaggedChannels
    /\ qc_values[2].left_data = 0
    /\ qc_values[2].right_data = Cardinality(FlaggedChannels)

FilterOf(metric) == QC_META[step_number].metrics[metric].error_df_filter_string

\* The joined rows of the current step that satisfy the registered error
\* predicate of the metric.
EvidenceRows(metric) ==
    IF FilterRaises(FilterOf(metric), df_error)
    THEN <<>>
    ELSE SelectSeq(df_error.rows, LAMBDA r : RowMatches(FilterOf(metric), r))

MetricFailed(metric) ==
    /\ metric \in DOMAIN metric_output
    /\ metric_output[metric].qc_status = 0

MetricPassed(metric) ==
    /\ metric \in DOMAIN metric_output
    /\ metric_output[metric].qc_status = 1

\* C13: a metric that fails has at least one joined row that satisfies its
\* registered error predicate: the rows handed to save_error_rows are never
\* an empty evidence set.
C13_FailedMetricHasEvidence ==
    /\ \A metric \in DOMAIN metric_output :
          MetricFailed(metric) => Len(EvidenceRows(metric)) >= 1
    /\ \A i \in DOMAIN save_calls : Len(save_calls[i].df_errors.rows) >= 1

\* C14: a metric that passes has no joined row that satisfies its
\* registered error predicate.
C14_PassedMetricHasNoEvidence ==
    \A metric \in DOMAIN metric_output :
        MetricPassed(metric) => Len(EvidenceRows(metric)) = 0

(***************************************************************************)
(* The save of the AMI summary.                                            *)
(***************************************************************************)
\* The view 'ami_summary' is registered by the current run.
SummaryViewOfRun ==
    /\ "ami_summary" \in DOMAIN views
    /\ views["ami_summary"].run = runs

\* C15: the setup always goes on to decrypt without raising and registers
\* the view 'ami_summary'; when the save of the summary failed (nothing of
\* the run is at the summary location) the view is registered from the
\* persisted dataframe.
C15_SummarySaveFailureGoesOn ==
    [][pc = "setup" =>
          /\ pc' = "decrypt"
          /\ fault' = NoFault
          /\ SummaryViewOfRun'
          /\ summary_sink' # <<runs>> => views'["ami_summary"].source = "persisted"
          /\ summary_sink' = <<runs>> => views'["ami_summary"].source = "parquet"]_vars

\* C15 witness: the decrypt step of a run evaluates its metrics on the view
\* of the persisted summary after the save of the summary failed.
C15_Witness ==
    /\ pc = "qc_step"
    /\ step_number = 1
    /\ 1 \in DOMAIN metric_output
    /\ summary_sink # <<runs>>
    /\ SummaryViewOfRun
    /\ views["ami_summary"].source = "persisted"

(***************************************************************************)
(* A failed write of the error rows.                                       *)
(***************************************************************************)
\* The calls of save_error_rows of the run whose write raised.
FailedSaves == {i \in DOMAIN save_calls : ~save_calls[i].ok}

\* The report of the current run is at the QC location: the report of run n
\* holds the records of the runs 1..n.
ReportOfRunPersisted ==
    /\ runs > 0
    /\ Len(qc_sink) = Len(QC_META) * runs

\* C16: a failed write of the error rows of a failed metric is neither
\* caught nor retried: it is the last call of save_error_rows of the run,
\* the run is aborted with the write error in the step and at the metric
\* that failed, no result of the metric is returned, nothing is stored at
\* the error location by the call and the QC report of the run is not
\* persisted.
C16_ErrorRowWriteFailurePropagates ==
    FailedSaves # {} =>
        /\ FailedSaves = {Len(save_calls)}
        /\ pc = "aborted"
        /\ fault = "WriteError"
        /\ save_calls[Len(save_calls)].step_number = step_number
        /\ save_calls[Len(save_calls)].metric_number = metric_number
        /\ metric_number \notin DOMAIN metric_output
        /\ Len(CurrentRunRecords) = step_number - 1
        /\ df_output = DataFrame(<<>>, <<>>)
        /\ ~ReportOfRunPersisted

\* C16 witness: the write of the error rows fails in the second run, after
\* a first run that persisted its report.
C16_Witness ==
    /\ FailedSaves # {}
    /\ runs = 2
    /\ Len(qc_sink) = Len(QC_META)
    /\ pc = "aborted"

\* C17: when the write of the error rows fails, the metric results computed
\* so far are in the QC output all the same, the status 0 of the failing
\* metric included.  (The state after the failed write is final: the run is
\* aborted and takes no further step.)
C17_ResultsSurviveWriteFailure ==
    FailedSaves # {} =>
        \E i \in DOMAIN df_output.rows :
            LET record == df_output.rows[i]
            IN  /\ record.id = ToStr(step_number)
                /\ DOMAIN metric_output \cup {metric_number} \subseteq DOMAIN record.metrics
                /\ record.metrics[metric_number].qc_status = 0

(***************************************************************************)
(* The QC report location.                                                 *)
(***************************************************************************)
\* A write to the QC location stores the unioned report, which holds the
\* record of every step of the current run, and ends the run.
CompleteReportWritten ==
    qc_sink' # qc_sink =>
        /\ pc = "save_output"
        /\ pc' = "done"
        /\ qc_sink' = df_output'.rows
        /\ ReportHoldsCurrentRun'

\* C18: a run persists a complete QC report, with the records of all four
\* steps of the run, or aborts without persisting any: every write to the
\* QC location stores a report with the four steps of the current run, a
\* run that is done has its report there and an aborted run has not.
C18_CompleteReportOrNone ==
    /\ [][CompleteReportWritten]_vars
    /\ [](pc = "done" => ReportOfRunPersisted /\ ReportHoldsCurrentRun)
    /\ [](pc = "aborted" => ~ReportOfRunPersisted)
    /\ [](ReportOfRunPersisted => pc = "done")

\* C18 witness: the second run has persisted its report.
C18_Witness ==
    /\ pc = "done"
    /\ runs = 2
    /\ ReportOfRunPersisted
    /\ ReportHoldsCurrentRun

(***************************************************************************)
(* SpecSaveErrorRows: calls of save_error_rows for any step number, and    *)
(* calls through qc_individual_metric for a failing metric.                *)
(***************************************************************************)
\* The step numbers save_error_rows is called with: the six it knows and
\* one on either side.
SaveSteps == 0..7

SaveMetrics == {1, 2}

\* The joined rows of a step: one row with the first filter column set.
ErrorFrame(step) ==
    LET columns == FilterColumnsOf(step)
    IN  DataFrame(columns,
            << [c \in {columns[i] : i \in DOMAIN columns} |->
                    IF c = columns[1] THEN 1 ELSE 0] >>)

\* Two different dataframes of error rows.
SaveFrames == {update_error_dataframe(step, 1, ErrorFrame(step)) : step \in {1, 3}}

InitSaveErrorRows ==
    /\ pc = "save_error_rows"
    /\ CleanIdle
    /\ MetricIdle
    /\ UnionIdle
    /\ RunIdle

\* save_error_rows(df_errors, step_number, metric_number)
SaveErrorRows ==
    /\ pc = "save_error_rows"
    /\ Len(save_calls) < MaxSaves
    /\ \E step \in SaveSteps, metric \in SaveMetrics, df_errors \in SaveFrames,
          write_ok \in BOOLEAN :
          LET res == save_error_rows(df_errors, step, metric, write_ok)
          IN  /\ step_number' = step
              /\ metric_number' = metric
              /\ fault' = res.fault
              /\ save_calls' = save_calls \o res.calls
              /\ error_sink' = Written(error_sink, res.calls)
              /\ pc' = IF res.fault = NoFault THEN "save_error_rows" ELSE "aborted"
    /\ metric_output' = <<>>
    /\ UNCHANGED <<cleanVars, unionVars, runVars, qc_values, df_error>>

\* qc_individual_metric for a metric that fails, 1 against 0.
QcIndividualMetricSave ==
    /\ pc = "save_error_rows"
    /\ Len(save_calls) < MaxSaves
    /\ \E step \in StepNumbers, write_ok \in BOOLEAN :
          \E metric \in MetricKeys(step) :
              LET res == qc_individual_metric(step, metric, 1, 0, ErrorFrame(step),
                                              write_ok)
              IN  /\ step_number' = step
                  /\ metric_number' = metric
                  /\ fault' = res.fault
                  /\ metric_output' = res.output
                  /\ save_calls' = save_calls \o res.calls
                  /\ error_sink' = Written(error_sink, res.calls)
                  /\ pc' = IF res.fault = NoFault THEN "save_error_rows" ELSE "aborted"
    /\ UNCHANGED <<cleanVars, unionVars, runVars, qc_values, df_error>>

NextSaveErrorRows == SaveErrorRows \/ QcIndividualMetricSave

SpecSaveErrorRows == InitSaveErrorRows /\ [][NextSaveErrorRows]_vars

\* The stage of a step number, as the claim lists them.
StageOfStep(step) ==
    CASE step = 1 -> "decrypt"
      [] step = 2 -> "channel_ingest"
      [] step = 3 -> "extract_common_ami"
      [] step = 4 -> "load_common_ami"
      [] step = 5 -> "raw_to_mdis_hour"
      [] step = 6 -> "raw_to_mdis_day"

\* The last call that wrote to the location.
LastWrite(location) ==
    LET writes == {i \in DOMAIN save_calls :
                      save_calls[i].ok /\ save_calls[i].save_to = location}
    IN  CHOOSE i \in writes : \A j \in writes : j <= i

C19_WitnessUnknownStep ==
    /\ Len(save_calls) = 2
    /\ save_calls[2].step_number = 7
    /\ save_calls[2].save_to = None
    /\ save_calls[1].ok /\ save_calls[1].step_number = 5
    /\ DOMAIN error_sink = {save_calls[1].save_to}

(***************************************************************************)
(* The keys of a metric result.                                            *)
(***************************************************************************)
ResultKeys ==
    {"metric_name", "left_data_name", "left_data_value", "right_data_name",
     "right_data_value", "left_right_delta", "qc_timestamp", "qc_status"}

ErrorKeys == {"qc_error_message", "qc_error_path"}

\* C20: every metric result holds metric_name, left_data_name,
\* left_data_value, right_data_name, right_data_value, left_right_delta,
\* qc_timestamp and qc_status, and holds qc_error_message and qc_error_path
\* if and only if its qc_status is 0.
C20_ResultKeys ==
    \A metric \in DOMAIN metric_output :
        LET result == metric_output[metric]
        IN  /\ ResultKeys \subseteq DOMAIN result
            /\ DOMAIN result \subseteq ResultKeys \cup ErrorKeys
            /\ result.qc_status \in {0, 1}
            /\ \A k \in ErrorKeys : k \in DOMAIN result <=> result.qc_status = 0

\* C20 witness: a failed metric has returned its result with both error
\* keys.
C20_Witness ==
    /\ pc = "metric_done"
    /\ metric_number \in DOMAIN metric_output
    /\ metric_output[metric_number].qc_status = 0
    /\ ErrorKeys \subseteq DOMAIN metric_output[metric_number]

\* A passed metric has returned its result without the error keys.
C20_WitnessPassed ==
    /\ pc = "metric_done"
    /\ metric_number \in DOMAIN metric_output
    /\ metric_output[metric_number].qc_status = 1
    /\ DOMAIN metric_output[metric_number] = ResultKeys

(***************************************************************************)
(* The loop of qc_individual_step.                                         *)
(***************************************************************************)
\* The metrics evaluated so far are those below the metric at hand.
EvaluatedBelow ==
    pc = "qc_step" =>
        DOMAIN metric_output = {k \in MetricKeys(step_number) : k < metric_number}

\* A result is added for the metric at hand, which has none yet, and the
\* loop moves to the next metric number.
NextMetricEvaluated ==
    metric_output' # metric_output /\ pc' = "qc_step" /\ pc = "qc_step" =>
        /\ metric_number \in MetricKeys(step_number)
        /\ metric_number \notin DOMAIN metric_output
        /\ DOMAIN metric_output' = DOMAIN metric_output \cup {metric_number}
        /\ \A k \in DOMAIN metric_output : metric_output'[k] = metric_output[k]
        /\ metric_number' = metric_number + 1

\* One record is emitted, with one result per registered metric.
OneRecordEmitted ==
    COMPLETED_QC_STEP_LIST' # COMPLETED_QC_STEP_LIST =>
        LET emitted == COMPLETED_QC_STEP_LIST'[Len(COMPLETED_QC_STEP_LIST')]
        IN  /\ COMPLETED_QC_STEP_LIST' = Append(COMPLETED_QC_STEP_LIST, emitted)
            /\ Len(emitted.rows) = 1
            /\ emitted.rows[1].id = ToStr(step_number)
            /\ emitted.rows[1].metrics = metric_output
            /\ DOMAIN emitted.rows[1].metrics = MetricKeys(step_number)

\* C21: qc_individual_step evaluates every metric registered for the step
\* once, in ascending order of the metric number, and a step that returns
\* emits one record whose metrics hold one result per registered metric,
\* keyed by the metric number.
C21_EveryMetricOnceInOrder ==
    /\ []EvaluatedBelow
    /\ [][NextMetricEvaluated]_vars
    /\ [][OneRecordEmitted]_vars

\* C21 witness: the decrypt step has emitted its record with the results of
\* its three metrics, of which one failed.
C21_Witness ==
    /\ Len(COMPLETED_QC_STEP_LIST) = 1
    /\ DOMAIN COMPLETED_QC_STEP_LIST[1].rows[1].metrics = {1, 2, 3}
    /\ COMPLETED_QC_STEP_LIST[1].rows[1].metrics[2].qc_status = 0
    /\ COMPLETED_QC_STEP_LIST[1].rows[1].metrics[3].qc_status = 1

(***************************************************************************)
(* The flags of the manifest joiner.                                       *)
(***************************************************************************)
\* A checksum with a missing value coalesced to 0.
CoalescedChecksum(checksum) == IF checksum = None THEN <<"0">> ELSE checksum

\* C22: in every row of the manifest joiner linecount_mismatch is 1 exactly
\* when the line counts of manifest and audit differ, and checksum_mismatch
\* is 1 exactly when the checksums differ, a missing value taken as 0: a
\* manifest file without an audit row has both flags set.
C22_MismatchFlags ==
    DecryptWithManifest =>
        \A i \in DOMAIN df_error.rows :
            LET row == df_error.rows[i]
            IN  /\ row.linecount_mismatch = 1
                     <=> FillNa0(row.manifest_linecount) # FillNa0(row.audit_linecount)
                /\ row.checksum_mismatch = 1
                     <=> CoalescedChecksum(row.manifest_checksum)
                            # CoalescedChecksum(row.audit_checksum)

(***************************************************************************)
(* The flags of the channel joiner.                                        *)
(***************************************************************************)
InIngestSuccess(c) == \E s \in Range(tables.df_cis) : ChannelIdentity(s) = c

InIngestError(c) == \E e \in tables.df_cie : ChannelIdentity(e) = c

\* C23: in every row of join_channel_ingest success is 1 iff the channel is
\* in the ingest success output and not in the ingest error output, error
\* is 1 iff it is in the error output and not in the success output,
\* no_output is 1 iff it is in neither; so at most one of the flags is 1
\* and all are 0 exactly when the channel is in both outputs.
C23_ChannelFlags ==
    ChannelIngestStarted =>
        \A i \in DOMAIN df_error.rows :
            LET row == df_error.rows[i]
                c == ChannelIdentity(row)
            IN  /\ row.success = Flag(InIngestSuccess(c) /\ ~InIngestError(c))
                /\ row.error = Flag(InIngestError(c) /\ ~InIngestSuccess(c))
                /\ row.no_output = Flag(~InIngestError(c) /\ ~InIngestSuccess(c))
                /\ row.success + row.error + row.no_output <= 1
                /\ row.success + row.error + row.no_output = 0
                     <=> InIngestSuccess(c) /\ InIngestError(c)

\* C23 witness: two raw channels, one in both outputs with all flags 0 and
\* one in the success output only.
C23_Witness ==
    /\ ChannelIngestStarted
    /\ \E i, j \in DOMAIN df_error.rows :
          /\ df_error.rows[i].success + df_error.rows[i].error
                + df_error.rows[i].no_output = 0
          /\ InIngestError(ChannelIdentity(df_error.rows[i]))
          /\ df_error.rows[j].success = 1

(***************************************************************************)
(* SpecSummary: raw_ami_to_common_qc and get_and_save_ami_summary on every *)
(* bounded table of raw reads.                                             *)
(***************************************************************************)
codes_actual == {<<"A">>, <<"A", "C", "T">>}

codes_estimated == {<<"E">>, <<"E", "S", "T">>}

codes_prorated == {<<"P", "R", "O">>}

codes_missing == {<<"M", "I", "S">>}

\* raw_ami_to_common_qc: the consumption code of a tenant code; a code that
\* is null or in none of the lists gives null.
consumption_code(raw) ==
    IF raw \in codes_actual THEN 1
    ELSE IF raw \in codes_estimated THEN 2
    ELSE IF raw \in codes_prorated THEN 3
    ELSE IF raw \in codes_missing THEN 0
    ELSE NoneInt

\* raw_ami_to_common_qc on the rows of the decrypted table.
raw_ami_to_common_qc(decrypted) ==
    [i \in DOMAIN decrypted |->
        [k \in DOMAIN decrypted[i] |->
            IF k = "consumption_code" THEN consumption_code(decrypted[i][k])
            ELSE decrypted[i][k]]]

\* The condition of no_code_read_flag without the isNull part:
\* ~(null isin [0, 1, 2, 3]) is null, which when() takes as false.
no_code_without_null(code) == ~IsNone(code) /\ code \notin {0, 1, 2, 3}

\* The condition of no_code_read_flag:
\* ~(consumption_code isin [0, 1, 2, 3]) | consumption_code isNull
no_code(code) == IsNone(code) \/ code \notin {0, 1, 2, 3}

\* The columns groupBy groups the reads by.
SummaryKeyColumns ==
    {"external_location_id", "external_account_id", "external_channel_id",
     "direction", "date_utc", "file_name", "interval_seconds"}

SummaryKey(read) == [k \in SummaryKeyColumns |-> read[k]]

\* f.sum of a flag column that is 1 for the reads with the property and
\* null for the others: null when no read has it.
SumFlag(reads) == IF Len(reads) = 0 THEN NoneInt ELSE Len(reads)

\* get_and_save_ami_summary: the summary row of the reads of one group.
SummaryRow(key, reads) ==
    LET num_reads_actual ==
            FillNa0(SumFlag(SelectSeq(reads, LAMBDA r : r.consumption_code = 1)))
        num_reads_estimated ==
            FillNa0(SumFlag(SelectSeq(reads, LAMBDA r : r.consumption_code = 2)))
        num_reads_prorated ==
            FillNa0(SumFlag(SelectSeq(reads, LAMBDA r : r.consumption_code = 3)))
        num_reads_missed ==
            FillNa0(SumFlag(SelectSeq(reads, LAMBDA r : r.consumption_code = 0)))
        num_reads_no_code ==
            FillNa0(SumFlag(SelectSeq(reads, LAMBDA r : no_code(r.consumption_code))))
    IN  [num_reads_actual |-> num_reads_actual,
         num_reads_estimated |-> num_reads_estimated,
         num_reads_prorated |-> num_reads_prorated,
         num_reads_missed |-> num_reads_missed,
         num_reads_no_code |-> num_reads_no_code,
         num_reads_total |-> num_reads_actual + num_reads_estimated
                                + num_reads_prorated + num_reads_missed
                                + num_reads_no_code] @@ key

\* get_and_save_ami_summary: one row per group of the common reads.
ami_summary(df_common) ==
    {SummaryRow(key, SelectSeq(df_common, LAMBDA r : SummaryKey(r) = key)) :
        key \in {SummaryKey(df_common[i]) : i \in DOMAIN df_common}}

\* The tenant codes of the raw reads: the mapped ones, one that is in no
\* list, and null.
RawCodes ==
    codes_actual \cup codes_estimated \cup codes_prorated \cup codes_missing
        \cup {<<"X">>, None}

\* A raw read of channel n.
RawReads ==
    {[consumption_code |-> code, date_utc |-> "date", file_name |-> <<"f", "1">>,
      interval_seconds |-> 900] @@ Channel(n) :
        code \in RawCodes, n \in {"1", "2"}}

InitSummary ==
    /\ pc = "raw_ami_to_common_qc"
    /\ CleanIdle
    /\ MetricIdle
    /\ UnionIdle
    /\ RunIdle

\* setup_common_ami_summary_raw_to_rollup: df_common =
\* raw_ami_to_common_qc(spark, 'decrypted')
RawAmiToCommonQc ==
    /\ pc = "raw_ami_to_common_qc"
    /\ \E decrypted \in SeqsUpTo(RawReads, MaxReads) :
          tables' = [decrypted |-> decrypted,
                     df_common |-> raw_ami_to_common_qc(decrypted)]
    /\ pc' = "get_and_save_ami_summary"
    /\ UNCHANGED <<cleanVars, metricVars, unionVars, has_manifest,
                   COMPLETED_QC_STEP_LIST, views, summary_sink, qc_sink,
                   phase_log, runs>>

\* get_and_save_ami_summary(spark, df_common): the summary is saved and the
\* view 'ami_summary' registered, from the saved file or, when the save
\* raised, from the persisted dataframe.
GetAndSaveAmiSummary ==
    /\ pc = "get_and_save_ami_summary"
    /\ \E write_ok \in BOOLEAN :
          LET df == ami_summary(tables.df_common)
          IN  /\ summary_sink' = IF write_ok THEN <<df>> ELSE summary_sink
              /\ views' = ("ami_summary" :> View(IF write_ok THEN "parquet"
                                                             ELSE "persisted")) @@ views
              /\ tables' = [ami_summary |-> df] @@ tables
    /\ pc' = "summary_done"
    /\ UNCHANGED <<cleanVars, metricVars, unionVars, has_manifest,
                   COMPLETED_QC_STEP_LIST, qc_sink, phase_log, runs>>

NextSummary == RawAmiToCommonQc \/ GetAndSaveAmiSummary

SpecSummary == InitSummary /\ [][NextSummary]_vars

\* The categories of a common read: actual, estimated, prorated, missing,
\* unknown.
CategoriesOf(read) ==
    {category \in {"actual", "estimated", "prorated", "missing", "unknown"} :
        CASE category = "actual" -> read.consumption_code = 1
          [] category = "estimated" -> read.consumption_code = 2
          [] category = "prorated" -> read.consumption_code = 3
          [] category = "missing" -> read.consumption_code = 0
          [] category = "unknown" -> read.consumption_code \notin {0, 1, 2, 3}}

\* C24: every raw read falls into exactly one of the categories actual,
\* estimated, prorated, missing and unknown, a null or unmapped code into
\* unknown, without raising; so in every summary group num_reads_total is
\* the number of raw reads of the group and the sum of the five counts.
C24_EveryReadInOneCategory ==
    pc = "summary_done" =>
        /\ fault = NoFault
        /\ \A i \in DOMAIN tables.decrypted :
              /\ Cardinality(CategoriesOf(tables.df_common[i])) = 1
              /\ tables.decrypted[i].consumption_code \in {<<"X">>, None}
                    => CategoriesOf(tables.df_common[i]) = {"unknown"}
              /\ \E row \in tables.ami_summary :
                    SummaryKey(row) = SummaryKey(tables.decrypted[i])
        /\ \A row \in tables.ami_summary :
              /\ row.num_reads_total =
                    Len(SelectSeq(tables.decrypted,
                                  LAMBDA r : SummaryKey(r) = SummaryKey(row)))
              /\ row.num_reads_total =
                    row.num_reads_actual + row.num_reads_estimated
                      + row.num_reads_prorated + row.num_reads_missed
                      + row.num_reads_no_code

\* C24 witness: a group of two reads, one with a null code and one with an
\* actual code, summarised as one unknown and one actual read.
C24_Witness ==
    /\ pc = "summary_done"
    /\ \E row \in tables.ami_summary :
          /\ row.num_reads_total = 2
          /\ row.num_reads_no_code = 1
          /\ row.num_reads_actual = 1
    /\ \E i \in DOMAIN tables.decrypted : tables.decrypted[i].consumption_code = None

(***************************************************************************)
(* The coverage of the joiners.                                            *)
(***************************************************************************)
\* C25: the joined rows hold at least one row for every key of every
\* input; for join_decrypt_manifest, one for every manifest file and one
\* for every audit file.
C25_JoinCoversEveryKey ==
    DecryptWithManifest =>
        /\ \A m \in tables.df_m :
              \E i \in DOMAIN df_error.rows :
                  df_error.rows[i].manifest_filename = m.manifest_filename
        /\ \A a \in tables.df_a :
              \E i \in DOMAIN df_error.rows :
                  df_error.rows[i].audit_filename = a.audit_filename

(***************************************************************************)
(* SpecFileKeys: get_manifest and get_decrypted_audit on a manifest entry  *)
(* and an audit entry with any bounded raw file names, and their join.     *)
(***************************************************************************)
\* QualityAlliant.get_manifest: the file name goes through clean_file_name,
\* the line count loses the header line when the manifest counts it.
get_manifest(manifest_keys, manifest_counts_headers) ==
    {[manifest_filename |-> clean_file_name(r.filename),
      manifest_checksum |-> r.checksum,
      manifest_linecount |-> r.linecount - Flag(manifest_counts_headers)] :
        r \in manifest_keys}

\* QualityAlliant.get_decrypted_audit on the DECRYPT_SUCCESS events of the
\* latest ingest date: the file name is the column filename as it is.
get_decrypted_audit(audit, raw_ami_has_headers) ==
    {[audit_filename |-> r.filename,
      audit_checksum |-> r.inDigest,
      audit_linecount |-> r.linesRead - Flag(raw_ami_has_headers)] :
        r \in audit}

InitFileKeys ==
    /\ pc = "get_manifest"
    /\ CleanIdle
    /\ MetricIdle
    /\ UnionIdle
    /\ RunIdle

\* decrypt with a manifest: df_m = get_manifest(...), df_a =
\* get_decrypted_audit(...)
GetManifestAndAudit ==
    /\ pc = "get_manifest"
    /\ \E manifest_name \in Strings(NameChars, MaxNameLen) \ {<<>>},
          audit_name \in Strings(NameChars, MaxAuditNameLen) \ {<<>>},
          manifest_counts_headers \in BOOLEAN, raw_ami_has_headers \in BOOLEAN :
          LET manifest_keys == {[filename |-> manifest_name, checksum |-> <<"a">>,
                                 linecount |-> 2]}
              audit == {[filename |-> audit_name, inDigest |-> <<"a">>,
                         linesRead |-> 2]}
          IN  tables' = [manifest_keys |-> manifest_keys,
                         audit |-> audit,
                         df_m |-> get_manifest(manifest_keys, manifest_counts_headers),
                         df_a |-> get_decrypted_audit(audit, raw_ami_has_headers)]
    /\ has_manifest' = TRUE
    /\ pc' = "join_decrypt_manifest"
    /\ UNCHANGED <<cleanVars, metricVars, unionVars, COMPLETED_QC_STEP_LIST,
                   views, summary_sink, qc_sink, phase_log, runs>>

\* decrypt with a manifest: df_error = join_decrypt_manifest(spark, df_m, df_a)
JoinDecryptManifest ==
    /\ pc = "join_decrypt_manifest"
    /\ df_error' = join_decrypt_manifest(tables.df_m, tables.df_a)
    /\ pc' = "joined"
    /\ UNCHANGED <<cleanVars, unionVars, runVars, step_number, metric_number,
                   qc_values, metric_output, save_calls, error_sink, fault>>

NextFileKeys == GetManifestAndAudit \/ JoinDecryptManifest

SpecFileKeys == InitFileKeys /\ [][NextFileKeys]_vars

\* C26: both sides of the file-name join of the decrypt step are names
\* normalized by clean_file_name: the manifest and the audit extractor emit
\* the clean name of the raw name, so a manifest entry and an audit entry of
\* one raw file, which differ in path or extension only, join.
C26_BothSidesAreFileKeys ==
    pc = "joined" =>
        /\ \A raw \in tables.manifest_keys :
              \E m \in tables.df_m : m.manifest_filename = clean_file_name(raw.filename)
        /\ \A raw \in tables.audit :
              \E a \in tables.df_a : a.audit_filename = clean_file_name(raw.filename)
        /\ \A m \in tables.manifest_keys, a \in tables.audit :
              clean_file_name(m.filename) = clean_file_name(a.filename)
                => \A i \in DOMAIN df_error.rows : df_error.rows[i].file_mismatch = 0

(***************************************************************************)
(* The joined rows of a step across its metrics.                           *)
(***************************************************************************)
\* The evaluation of a metric leaves the joined rows of the step as they
\* are.
JoinedRowsKept ==
    pc = "qc_step" /\ pc' \in {"qc_step", "aborted"} => df_error' = df_error

\* The rows handed to save_error_rows for a metric of the step at hand are
\* the rows of the full joined set that satisfy the predicate of the metric.
FilteredFromFullSet ==
    pc \in {"qc_step", "aborted"} =>
        \A i \in DOMAIN save_calls :
            save_calls[i].step_number = step_number =>
                LET evidence == EvidenceRows(save_calls[i].metric_number)
                    message == QC_META[step_number]
                                 .metrics[save_calls[i].metric_number].error_message
                IN  save_calls[i].df_errors.rows =
                        [k \in DOMAIN evidence |-> WithErrorMessage(evidence[k], message)]

\* C27: within a step the evaluation of a failed metric leaves the joined
\* rows of the step unchanged for the metrics after it: the error rows of
\* every failed metric are filtered from the full joined rows, never from
\* the rows an earlier failed metric filtered.
C27_JoinedRowsUnchanged ==
    /\ [][JoinedRowsKept]_vars
    /\ []FilteredFromFullSet

\* C27 witness: two metrics of the decrypt step have failed and the second
\* saved a row that is not among the rows of the first.
C27_Witness ==
    /\ has_manifest
    /\ step_number = 1
    /\ Len(save_calls) >= 2
    /\ save_calls[1].ok /\ save_calls[2].ok
    /\ \E i \in DOMAIN save_calls[2].df_errors.rows :
          \A k \in DOMAIN save_calls[1].df_errors.rows :
              save_calls[2].df_errors.rows[i].manifest_filename
                  # save_calls[1].df_errors.rows[k].manifest_filename

(***************************************************************************)
(* The checksum metric without a manifest.                                 *)
(***************************************************************************)
DecryptWithoutManifest ==
    /\ step_number = 1
    /\ ~has_manifest
    /\ pc \in {"qc_step", "aborted"}

\* C28: without a manifest metric 3 of decrypt is evaluated with 0 against
\* 0 and passes whenever it is evaluated; the predicate
\* 'checksum_mismatch = 1' is never applied to the joined rows, which have
\* no such column, and no error rows of metric 3 are saved.
C28_NoManifestChecksumPasses ==
    DecryptWithoutManifest =>
        /\ qc_values[3] = [left_data |-> 0, right_data |-> 0]
        /\ ~HasColumn(df_error, "checksum_mismatch")
        /\ 3 \in DOMAIN metric_output =>
              /\ metric_output[3].qc_status = 1
              /\ DOMAIN metric_output[3] = ResultKeys
        /\ fault # "AnalysisException"
        /\ \A i \in DOMAIN save_calls : save_calls[i].metric_number # 3
        /\ <<"decrypt", 3>> \notin DOMAIN error_sink

\* C28 witness: without a manifest, metric 1 has failed on joined rows and
\* metric 3 has passed.
C28_Witness ==
    /\ DecryptWithoutManifest
    /\ 3 \in DOMAIN metric_output
    /\ metric_output[1].qc_status = 0
    /\ metric_output[3].qc_status = 1
    /\ Len(df_error.rows) >= 1

(***************************************************************************)
(* A channel with one channel uuid.                                        *)
(***************************************************************************)
\* The raw channels with exactly one row in the ingest success output.
MappedOnce ==
    {c \in RawChannels :
        Len(SelectSeq(tables.df_cis, LAMBDA s : ChannelIdentity(s) = c)) = 1}

\* C29: a raw channel with exactly one row, one channel uuid, in the ingest
\* success output is never flagged
\* external_channel_multiple_channel_uuid = 1 and never counted by metric 2
\* of step 2, whatever the channel map and the ingest error output hold.
C29_OneUuidNeverFlagged ==
    ChannelIngestStarted =>
        /\ MappedOnce \cap FlaggedChannels = {}
        /\ qc_values[2].right_data = Cardinality(FlaggedChannels \ MappedOnce)

(***************************************************************************)
(* The scalars of a step on empty tables.                                  *)
(***************************************************************************)
\* C30: a step hands qc_individual_metric two integers even when its
\* tables are empty, a null aggregate being taken as 0: on empty tables
\* the decrypt step evaluates its metrics with 0 against 0, they pass, and
\* no metric fails on a null operand of left - right.
C30_EmptyTablesPass ==
    (/\ step_number = 1
     /\ pc \in {"qc_step", "aborted"}
     /\ tables.df_m = {} /\ tables.df_a = {} /\ tables.df_e = {} /\ tables.df_d = {}) =>
        /\ \A metric \in DOMAIN qc_values :
              /\ ~IsNone(qc_values[metric].left_data)
              /\ ~IsNone(qc_values[metric].right_data)
        /\ fault = NoFault
        /\ \A metric \in DOMAIN metric_output : metric_output[metric].qc_status = 1

=============================================================================
